---------------------------- MODULE Spec2Model ----------------------------
(***************************************************************************)
(* Model of the chaser-gt Geetest v4 client: the solve session of          *)
(* src/src/client.rs (load, puzzle solver, signing, bounded continue-retry *)
(* loop over the verify endpoint), the signing of src/src/sign.rs (payload *)
(* merge, LotParser), the encryption dispatch of src/src/crypto/mod.rs and *)
(* the proof-of-work search of src/src/crypto/pow.rs, the deserialization  *)
(* of src/src/models.rs, the constants cache of src/src/deobfuscate.rs and *)
(* the gobang solver of src/src/solvers/gobang.rs.                         *)
(*                                                                         *)
(* Conventions.  Option<T> is a sequence of length 0 (None) or 1 (Some).   *)
(* Result<T> is a record [tag, val]: tag "Ok" with the value, tag "Err"    *)
(* with a GeekedError [variant, message], or tag "Panic" when the Rust     *)
(* code aborts (panic!, out-of-range slice) instead of returning.          *)
(***************************************************************************)
EXTENDS Integers, Sequences, FiniteSets, TLC

VARIABLES
    pc,             \* position of solve(): "load","solve","sign","submit","done"
    risk_type,      \* Geeked.risk_type
    icon_feature,   \* whether the crate is built with cfg(feature = "icon")
    constants,      \* Geeked.constants (the mapping of the deobfuscated script)
    data,           \* the LoadResponse fields read by signing and the loop
    puzzle,         \* the LoadResponse fields read only by solve_captcha
    solver_result,  \* Option<SolverResult> returned by solve_captcha
    lot_number,     \* solve()'s local `lot_number`
    payload,        \* solve()'s local `payload`
    process_token,  \* solve()'s local `process_token`
    current_w,      \* solve()'s local `current_w`
    attempt,        \* the loop variable of `for attempt in 0..MAX_RETRIES`
    outcome,        \* what solve() returned (or "Running")
    last_call,      \* query parameters of the latest verify call
    last_reply,     \* the wire reply to the latest verify call
    verify_calls,   \* number of verify (submit_captcha) calls made
    solver_calls,   \* number of solve_captcha invocations
    sign_calls,     \* number of generate_w_parameter invocations
    continues,      \* number of verify replies that were continue responses
    events,         \* the order of load / solve / sign / verify calls
    enc_in,         \* encrypt_w: raw_input of the latest call
    enc_pt,         \* encrypt_w: pt of the latest call
    enc_uid,        \* encrypt_w: what rand_uid() would return in that call
    enc_out,        \* encrypt_w: [result, uids_drawn] of the latest call
    pow_pc,         \* generate_pow: "idle","start","loop","returned","panicked"
    pow_args,       \* generate_pow: its six arguments
    pow_digest,     \* the named hash function on pow_base + nonce, per nonce
    pow_base,       \* generate_pow's local `pow_base`
    pow_prefix,     \* generate_pow's local `prefix`
    pow_msg,        \* generate_pow's local `pow_msg` (latest candidate)
    pow_hash,       \* generate_pow's local `hash` (latest candidate)
    pow_hashed,     \* candidates hashed (counted up to MaxRejected + 1)
    pow_rejected,   \* number of candidates rejected (counted up to MaxRejected)
    pow_out,        \* generate_pow: the PowResult returned
    vp_hash,        \* verify_pow called on its own: the digest
    vp_bits,        \* verify_pow called on its own: the required bits
    vp_out,         \* verify_pow called on its own: what it returned
    sig_in,         \* payload build: constants.abo, lot_dict, solver result, random
    sig_payload,    \* payload build: the payload map that is serialized
    pat_shape,      \* parse_pattern: the groups the pattern was written from
    pat_in,         \* parse_pattern: the pattern string
    pat_out,        \* parse_pattern: the compiled program
    map_in,         \* LotParser::new: the mapping string
    map_out,        \* LotParser::new: what it returned
    call_fn,        \* a function called on its own: its name ("" when none)
    call_in,        \* a function called on its own: its arguments
    call_out,       \* a function called on its own: what it returned
    sessions        \* two solve() calls on one Geeked value: their locals

session_vars == <<pc, risk_type, icon_feature, constants, data, puzzle,
                  solver_result, lot_number, payload, process_token, current_w,
                  attempt, outcome, last_call, last_reply, verify_calls,
                  solver_calls, sign_calls, continues, events>>
enc_vars == <<enc_in, enc_pt, enc_uid, enc_out>>
pow_vars == <<pow_pc, pow_args, pow_digest, pow_base, pow_prefix, pow_msg,
              pow_hash, pow_hashed, pow_rejected, pow_out>>
vp_vars == <<vp_hash, vp_bits, vp_out>>
sig_vars == <<sig_in, sig_payload>>
pat_vars == <<pat_shape, pat_in, pat_out>>
map_vars == <<map_in, map_out>>
call_vars == <<call_fn, call_in, call_out>>
\* the variables of the functions that are also run on their own
fn_vars == <<enc_vars, pow_vars, vp_vars, sig_vars, pat_vars, map_vars,
             call_vars, sessions>>
vars == <<session_vars, fn_vars>>

\* generate_pow, verify_pow, the payload build, parse_pattern,
\* LotParser::new, the functions called on their own and the two concurrent
\* sessions are not being run: their variables hold nothing
FnIdle ==
    /\ pow_pc = "idle"
    /\ pow_args = <<>>
    /\ pow_digest = <<>>
    /\ pow_base = ""
    /\ pow_prefix = <<>>
    /\ pow_msg = ""
    /\ pow_hash = <<>>
    /\ pow_hashed = 0
    /\ pow_rejected = 0
    /\ pow_out = <<>>
    /\ vp_hash = <<>> /\ vp_bits = -1 /\ vp_out = FALSE
    /\ sig_in = <<>> /\ sig_payload = <<>>
    /\ pat_shape = <<>> /\ pat_in = <<>> /\ pat_out = <<>>
    /\ map_in = <<>> /\ map_out = <<>>
    /\ call_fn = "" /\ call_in = <<>> /\ call_out = <<>>
    /\ sessions = <<>>

---------------------------------------------------------------------------
(* Option and Result *)

None == <<>>
Some(x) == <<x>>
IsSome(o) == o # <<>>
Unwrap(o) == o[1]

Ok(v) == [tag |-> "Ok", val |-> v]
Err(variant, message) ==
    [tag |-> "Err", val |-> [variant |-> variant, message |-> message]]
Panic(message) == [tag |-> "Panic", val |-> message]
Running == [tag |-> "Running", val |-> ""]

IsOk(r) == r.tag = "Ok"
IsErr(r) == r.tag = "Err"
IsPanic(r) == r.tag = "Panic"

---------------------------------------------------------------------------
(* Bounds and input sets *)

\* the retry bound of solve()
MAX_RETRIES == 10

\* lot numbers are 0..MaxLot: 0 is the one the load call issues, the others
\* are the ones a continue response may carry
MaxLot == 1
\* longest raw_input given to encrypt_w
MaxPlainLen == 2

LoadLot == 0
ServerLots == 1..MaxLot
LoadPayload == "payload0"
ServerPayloads == {"payload1"}
LoadToken == "token0"
ServerTokens == {"token1"}
SecCodes == {"seccode1", "seccode2"}

RiskTypes == {"slide", "gobang", "icon", "ai"}
ProtocolTypes == {"", "0", "1", "2", "3"}
HashFuncs == {"md5", "sha1", "sha256", "crc32"}
\* the form of constants.mapping: "key":"value", "key":'value', or neither
Mappings == {"dq_dq", "dq_sq", "no_match"}
Uids == {"1000100010001000", "ffffffffffffffff"}

\* characters of a raw_input, with their ASCII codes
Chars == {"a", "7", "-", " ", "{", "%"}
Code(c) ==
    CASE c = "a" -> 97 [] c = "7" -> 55 [] c = "-" -> 45
      [] c = " " -> 32 [] c = "{" -> 123 [] c = "%" -> 37

RECURSIVE SeqsUpTo(_, _)
SeqsUpTo(S, n) ==
    IF n = 0 THEN {<<>>}
    ELSE LET shorter == SeqsUpTo(S, n - 1)
         IN  shorter \cup {Append(s, c) : s \in shorter, c \in S}
Plaintexts == SeqsUpTo(Chars, MaxPlainLen)

---------------------------------------------------------------------------
(* crypto/mod.rs: encrypt_w *)

HexUpper == <<"0", "1", "2", "3", "4", "5", "6", "7",
              "8", "9", "A", "B", "C", "D", "E", "F">>

\* urlencoding::encode keeps ASCII alphanumerics and - _ . ~ and writes every
\* other byte as %XX with upper-case hex digits
Unreserved == {"a", "7", "-"}
PercentByte(c) ==
    <<"%", HexUpper[(Code(c) \div 16) + 1], HexUpper[(Code(c) % 16) + 1]>>

RECURSIVE urlencoding_encode(_)
urlencoding_encode(s) ==
    IF s = <<>> THEN <<>>
    ELSE (IF Head(s) \in Unreserved THEN <<Head(s)>> ELSE PercentByte(Head(s)))
         \o urlencoding_encode(Tail(s))

\* the two ciphers are opaque: a ciphertext is the term of its inputs
encrypt_aes_cbc(raw_input, key) == [aes_cbc |-> raw_input, key |-> key]
encrypt_rsa(message) == [rsa |-> message]
Hybrid(enc_input, enc_key) == [hex_cipher |-> enc_input, hex_key |-> enc_key]

\* a faulty dispatch, against which C10 is tested: pt "2" falls into the
\* hybrid arm
EncryptBranchSm2AsHybrid(pt) ==
    IF pt = "" \/ pt = "0" THEN "urlencode"
    ELSE IF pt = "1" \/ pt = "2" THEN "hybrid"
    ELSE "unknown"

\* the branch encrypt_w takes for a protocol type
EncryptBranch(pt) ==
    IF pt = "" \/ pt = "0" THEN "urlencode"
    ELSE IF pt = "1" THEN "hybrid"
    ELSE IF pt = "2" THEN "sm2"
    ELSE "unknown"

\* the error encrypt_w returns on the branches that produce no output
EncryptError(pt) ==
    IF EncryptBranch(pt) = "sm2"
    THEN Err("Encryption", "Encryption type 2 (SM2) is not implemented yet")
    ELSE Err("Encryption", "Unknown encryption type: " \o pt)

\* encrypt_w(raw_input, pt) when rand_uid() returns uid: the result and the
\* number of rand_uid() calls made (none on the early return)
encrypt_w(raw_input, pt, uid) ==
    LET branch == EncryptBranch(pt) IN
    IF branch = "urlencode"
    THEN [result |-> Ok(urlencoding_encode(raw_input)), uids_drawn |-> 0]
    ELSE [result |->
            IF branch = "hybrid"
            THEN Ok(Hybrid(encrypt_aes_cbc(raw_input, uid), encrypt_rsa(uid)))
            ELSE EncryptError(pt),
          uids_drawn |-> 1]

NoEncOut == [result |-> Running, uids_drawn |-> 0]

---------------------------------------------------------------------------
(* client.rs: the wire, parse_jsonp, load_captcha, submit_captcha *)

\* A reply as the JSONP code sees it: whether the transport delivered a body
\* (sent), whether the body contains `callback(` (found), whether the range
\* json_start..len-1 is a valid slice (slice_ok: false when the body ends
\* right after `callback(`), whether the slice deserializes into
\* GeetestResponse<T> (json_ok), the envelope's status, and the data.
WireReply(sent, found, slice_ok, json_ok, status, d) ==
    [sent |-> sent, found |-> found, slice_ok |-> slice_ok,
     json_ok |-> json_ok, status |-> status, data |-> d]

Replies(datas, nodata) ==
    {WireReply(FALSE, FALSE, FALSE, FALSE, "", nodata),
     WireReply(TRUE, FALSE, FALSE, FALSE, "", nodata),
     WireReply(TRUE, TRUE, FALSE, FALSE, "", nodata),
     WireReply(TRUE, TRUE, TRUE, FALSE, "", nodata),
     WireReply(TRUE, TRUE, TRUE, TRUE, "error", nodata)}
    \cup {WireReply(TRUE, TRUE, TRUE, TRUE, "success", d) : d \in datas}

parse_jsonp(reply) ==
    IF ~reply.found THEN Err("InvalidResponse", "Invalid JSONP format")
    ELSE IF ~reply.slice_ok THEN Panic("slice index starts past its end")
    ELSE IF ~reply.json_ok THEN Err("Json", "JSON parsing error")
    ELSE IF reply.status # "success"
         THEN Err("InvalidResponse", "Geetest returned status: " \o reply.status)
    ELSE Ok(reply.data)

load_captcha(reply) ==
    IF ~reply.sent THEN Err("Http", "HTTP request failed")
    ELSE parse_jsonp(reply)

\* the query parameters of a verify call that depend on the session
VerifyParams(lot, pay, tok, w) ==
    [lot_number |-> lot, payload |-> pay, process_token |-> tok, w |-> w]

submit_captcha(reply) ==
    IF ~reply.sent THEN Err("Http", "HTTP request failed")
    ELSE parse_jsonp(reply)

\* LoadResponse (models.rs:56-73); slice, bg, ques, imgs: whether present
LoadResponses ==
    [lot_number : {LoadLot}, payload : {LoadPayload},
     process_token : {LoadToken}, pt : ProtocolTypes, hashfunc : HashFuncs,
     slice : BOOLEAN, bg : BOOLEAN, ques : BOOLEAN, imgs : BOOLEAN]
NoLoadResponse ==
    [lot_number |-> -1, payload |-> "", process_token |-> "", pt |-> "",
     hashfunc |-> "", slice |-> FALSE, bg |-> FALSE, ques |-> FALSE,
     imgs |-> FALSE]
LoadReplies == Replies(LoadResponses, NoLoadResponse)

NoData ==
    [lot_number |-> -1, payload |-> "", process_token |-> "", pt |-> "",
     hashfunc |-> ""]
NoPuzzle == [slice |-> FALSE, bg |-> FALSE, ques |-> FALSE, imgs |-> FALSE]
DataOf(d) ==
    [lot_number |-> d.lot_number, payload |-> d.payload,
     process_token |-> d.process_token, pt |-> d.pt, hashfunc |-> d.hashfunc]
PuzzleOf(d) ==
    [slice |-> d.slice, bg |-> d.bg, ques |-> d.ques, imgs |-> d.imgs]

\* VerifyResponse (models.rs:93-112), the fields solve() reads
VerifyResponse(s, r, p, t, l) ==
    [seccode |-> s, result |-> r, payload |-> p, process_token |-> t,
     lot_number |-> l]
NoVerifyResponse == VerifyResponse(None, None, None, None, None)

MaxRetriesMessage == "Max retries (" \o ToString(MAX_RETRIES) \o ") exceeded"

Opt(S) == {None} \cup {Some(x) : x \in S}
\* what the server may answer: a continue with any subset of the three
\* updates (with or without a seccode), or any other result with no update
VerifyResponses ==
    {VerifyResponse(s, Some("continue"), p, t, l) :
        s \in Opt(SecCodes), p \in Opt(ServerPayloads),
        t \in Opt(ServerTokens), l \in Opt(ServerLots)}
    \cup {VerifyResponse(s, r, None, None, None) :
        s \in Opt(SecCodes),
        r \in Opt({"fail", MaxRetriesMessage})}
VerifyReplies == Replies(VerifyResponses, NoVerifyResponse)

---------------------------------------------------------------------------
(* client.rs: solve_captcha *)

\* What the solver meets outside the load response: whether the image
\* downloads succeed, whether the images decode and the solver finds its
\* answer, whether `ques` deserializes to the expected type, and the gobang
\* board (a ragged board indexes out of range in find_four_in_line).
SolverEnvs ==
    [download_ok : BOOLEAN, image_ok : BOOLEAN, ques_ok : BOOLEAN,
     board : {"solvable", "unsolvable", "ragged"}]

solve_captcha(rt, feature, pz, env) ==
    CASE rt = "slide" ->
            IF ~pz.slice
            THEN Err("InvalidResponse", "Missing slice path for slide captcha")
            ELSE IF ~pz.bg
            THEN Err("InvalidResponse", "Missing bg path for slide captcha")
            ELSE IF ~env.download_ok THEN Err("Http", "HTTP request failed")
            ELSE IF ~env.image_ok
            THEN Err("ImageProcessing", "Failed to load puzzle piece")
            ELSE Ok("Slide")
      [] rt = "gobang" ->
            IF ~pz.ques
            THEN Err("InvalidResponse", "Missing ques for gobang captcha")
            ELSE IF ~env.ques_ok THEN Err("Json", "JSON parsing error")
            ELSE IF env.board = "ragged" THEN Panic("index out of bounds")
            ELSE IF env.board = "unsolvable"
            THEN Err("VerificationFailed", "Could not solve gobang puzzle")
            ELSE Ok("Gobang")
      [] rt = "icon" ->
            IF ~feature
            THEN Err("UnsupportedType",
                     "Icon captcha requires 'icon' feature to be enabled")
            ELSE IF ~pz.imgs
            THEN Err("InvalidResponse", "Missing imgs path for icon captcha")
            ELSE IF ~pz.ques
            THEN Err("InvalidResponse", "Missing ques for icon captcha")
            ELSE IF ~env.ques_ok THEN Err("Json", "JSON parsing error")
            ELSE IF ~env.download_ok THEN Err("Http", "HTTP request failed")
            ELSE IF ~env.image_ok
            THEN Err("ImageProcessing", "Failed to load image")
            ELSE Ok("Icon")
      [] OTHER -> Ok("Ai")

---------------------------------------------------------------------------
(* sign.rs: generate_w_parameter *)

\* LotParser::new on the mapping: an error unless one of the two quoted
\* forms matches
LotParser_new(mapping) ==
    IF mapping = "dq_dq" \/ mapping = "dq_sq"
    THEN Ok([mapping |-> mapping])
    ELSE Err("Encryption", "Invalid mapping format: " \o mapping)

\* generate_pow: the message carries the lot number it was called with; an
\* unknown hash function name panics
generate_pow(lot, hash_func) ==
    IF hash_func \in {"md5", "sha1", "sha256"}
    THEN Ok([pow_msg |-> [hash_func |-> hash_func, lot_number |-> lot],
             pow_sign |-> [digest_of |-> lot, hash_func |-> hash_func]])
    ELSE Panic("Unsupported hash function: " \o hash_func)

\* LotParser::get_dict: the structure derived from the lot number it is given
get_dict(parser, lot) == [mapping |-> parser.mapping, lot_number |-> lot]

\* the payload before serialization: the lot number in the base fields, the
\* PoW message and signature, the lot-derived structure and the solver
\* result whose category fields are merged last
SignedPayload(lot, pow, lot_dict, sr) ==
    [lot_number |-> lot, pow_msg |-> pow.pow_msg, pow_sign |-> pow.pow_sign,
     lot_dict |-> lot_dict, solver |-> sr]

NoW == [mode |-> "none", plain |-> <<>>]

\* serialize and encrypt_w(payload_str, data.pt): the w string is the term
\* of the payload and the mode, or encrypt_w's error
encrypt_payload(plain, pt) ==
    IF EncryptBranch(pt) \in {"urlencode", "hybrid"}
    THEN Ok([mode |-> EncryptBranch(pt), plain |-> <<plain>>])
    ELSE EncryptError(pt)

generate_w_parameter(d, consts, sr) ==
    LET lot == d.lot_number
        lot_parser == LotParser_new(consts.mapping)
        pow_result == generate_pow(lot, d.hashfunc)
    IN  IF ~IsOk(lot_parser) THEN lot_parser
        ELSE IF ~IsOk(pow_result) THEN pow_result
        ELSE encrypt_payload(
                 SignedPayload(lot, pow_result.val,
                               get_dict(lot_parser.val, lot), sr),
                 d.pt)

---------------------------------------------------------------------------
(* client.rs: solve *)

NoCall == VerifyParams(-1, "", "", NoW)
NoReply == WireReply(FALSE, FALSE, FALSE, FALSE, "", NoVerifyResponse)

\* a faulty loop bound, against which C1 is tested: `0..=MAX_RETRIES`
LoopContinuesInclusive(a) == a <= MAX_RETRIES

\* `for attempt in 0..MAX_RETRIES`: whether the body runs once more
LoopContinues(a) == a < MAX_RETRIES

\* a faulty order of the two tests, against which C2 is tested: "continue"
\* is looked at before the seccode
ClassifyContinueFirst(resp) ==
    IF resp.result = Some("continue") THEN "continue"
    ELSE IF IsSome(resp.seccode) THEN "success"
    ELSE "failed"

\* what solve() does with a parsed verify response: a seccode wins, then the
\* literal result "continue", anything else is a failure
Classify(resp) ==
    IF IsSome(resp.seccode) THEN "success"
    ELSE IF resp.result = Some("continue") THEN "continue"
    ELSE "failed"

\* `if let Some(new_payload) = verify_response.payload { payload = ... }`
UpdatePayload(old, resp) ==
    IF IsSome(resp.payload) THEN Unwrap(resp.payload) ELSE old

\* a faulty update, against which C5 is tested: the process token is
\* replaced when the response carries a payload
UpdateProcessTokenOnPayload(old, resp) ==
    IF IsSome(resp.payload) THEN "token1" ELSE old

\* `if let Some(new_process_token) = verify_response.process_token { ... }`
UpdateProcessToken(old, resp) ==
    IF IsSome(resp.process_token) THEN Unwrap(resp.process_token) ELSE old

\* `if let Some(new_lot_number) = verify_response.lot_number { ... }`
UpdateLotNumber(old, resp) ==
    IF IsSome(resp.lot_number) THEN Unwrap(resp.lot_number) ELSE old

\* a faulty message, against which C6 is tested: the server's result is
\* dropped
FailureMessageGeneric(result) == "Unknown verification error"

\* the message of the failure returned for a response that is neither a
\* success nor a continue
FailureMessage(result) ==
    IF IsSome(result) THEN Unwrap(result) ELSE "Unknown verification error"

\* a faulty retry, against which C4 is tested: the solver result is signed
\* again
RetrySolverResultReused(sr) == sr

\* the solver result handed to the signing done after a continue response
RetrySolverResult(sr) == None

\* solve() returns: its locals are dropped
Return(result) ==
    /\ pc' = "done"
    /\ outcome' = result
    /\ data' = NoData
    /\ puzzle' = NoPuzzle
    /\ solver_result' = None
    /\ lot_number' = -1
    /\ payload' = ""
    /\ process_token' = ""
    /\ current_w' = NoW
    /\ attempt' = 0

Init ==
    /\ pc = "load"
    /\ risk_type \in RiskTypes
    /\ icon_feature \in (IF risk_type = "icon" THEN BOOLEAN ELSE {FALSE})
    /\ constants \in [mapping : Mappings]
    /\ data = NoData
    /\ puzzle = NoPuzzle
    /\ solver_result = None
    /\ lot_number = -1
    /\ payload = ""
    /\ process_token = ""
    /\ current_w = NoW
    /\ attempt = 0
    /\ outcome = Running
    /\ last_call = NoCall
    /\ last_reply = NoReply
    /\ verify_calls = 0
    /\ solver_calls = 0
    /\ sign_calls = 0
    /\ continues = 0
    /\ events = <<>>
    /\ enc_in = <<>>
    /\ enc_pt = ""
    /\ enc_uid = ""
    /\ enc_out = NoEncOut
    /\ FnIdle

\* `let data = self.load_captcha().await?;`
Load ==
    /\ pc = "load"
    /\ \E reply \in LoadReplies :
         LET r == load_captcha(reply) IN
         IF IsOk(r)
         THEN /\ data' = DataOf(r.val)
              /\ puzzle' = PuzzleOf(r.val)
              /\ pc' = "solve"
              /\ UNCHANGED <<solver_result, lot_number, payload, process_token,
                             current_w, attempt, outcome>>
         ELSE Return(r)
    /\ events' = Append(events, "load")
    /\ UNCHANGED <<risk_type, icon_feature, constants, last_call, last_reply,
                   verify_calls, solver_calls, sign_calls, continues>>
    /\ UNCHANGED fn_vars

\* `let solver_result = self.solve_captcha(&data).await?;`
Solve ==
    /\ pc = "solve"
    /\ \E env \in SolverEnvs :
         LET r == solve_captcha(risk_type, icon_feature, puzzle, env) IN
         IF IsOk(r)
         THEN /\ solver_result' = Some(r.val)
              /\ puzzle' = NoPuzzle
              /\ pc' = "sign"
              /\ UNCHANGED <<data, lot_number, payload, process_token,
                             current_w, attempt, outcome>>
         ELSE Return(r)
    /\ solver_calls' = solver_calls + 1
    /\ events' = Append(events, "solve")
    /\ UNCHANGED <<risk_type, icon_feature, constants, last_call, last_reply,
                   verify_calls, sign_calls, continues>>
    /\ UNCHANGED fn_vars

\* the first signing and the initialisation of the loop's state
Sign ==
    /\ pc = "sign"
    /\ LET r == generate_w_parameter(data, constants, solver_result) IN
         IF IsOk(r)
         THEN /\ lot_number' = data.lot_number
              /\ payload' = data.payload
              /\ process_token' = data.process_token
              /\ current_w' = r.val
              /\ pc' = "submit"
              /\ UNCHANGED <<data, puzzle, solver_result, attempt, outcome>>
         ELSE Return(r)
    /\ sign_calls' = sign_calls + 1
    /\ events' = Append(events, "sign")
    /\ UNCHANGED <<risk_type, icon_feature, constants, last_call, last_reply,
                   verify_calls, solver_calls, continues>>
    /\ UNCHANGED fn_vars

\* a reply that parses and carries no seccode and the result "continue"
IsContinueResponse(reply) ==
    /\ reply.sent /\ reply.found /\ reply.slice_ok /\ reply.json_ok
    /\ reply.status = "success"
    /\ reply.data.seccode = None
    /\ reply.data.result = Some("continue")

\* one verify call of the loop: the query is built from the loop's state
VerifyCall(reply) ==
    /\ pc = "submit"
    /\ LoopContinues(attempt)
    /\ reply \in VerifyReplies
    /\ verify_calls' = verify_calls + 1
    /\ continues' = continues + (IF IsContinueResponse(reply) THEN 1 ELSE 0)
    /\ last_call' = VerifyParams(lot_number, payload, process_token, current_w)
    /\ last_reply' = reply
    /\ UNCHANGED <<risk_type, icon_feature, constants, solver_calls>>
    /\ UNCHANGED fn_vars

\* `submit_captcha(..).await?` fails: transport, JSONP or JSON error
SubmitError ==
    \E reply \in VerifyReplies :
        /\ VerifyCall(reply)
        /\ ~IsOk(submit_captcha(reply))
        /\ Return(submit_captcha(reply))
        /\ events' = Append(events, "verify")
        /\ UNCHANGED sign_calls

\* `if let Some(seccode) = verify_response.seccode { return Ok(seccode); }`
SubmitSuccess ==
    \E reply \in VerifyReplies :
        /\ VerifyCall(reply)
        /\ IsOk(submit_captcha(reply))
        /\ Classify(submit_captcha(reply).val) = "success"
        /\ Return(Ok(Unwrap(submit_captcha(reply).val.seccode)))
        /\ events' = Append(events, "verify")
        /\ UNCHANGED sign_calls

\* a faulty continue branch, against which C30 is tested: the state is
\* updated but the w of the previous signing is sent again
SubmitContinueWithoutSigning ==
    \E reply \in VerifyReplies :
        /\ VerifyCall(reply)
        /\ IsOk(submit_captcha(reply))
        /\ Classify(submit_captcha(reply).val) = "continue"
        /\ LET resp == submit_captcha(reply).val
           IN  /\ payload' = UpdatePayload(payload, resp)
               /\ process_token' = UpdateProcessToken(process_token, resp)
               /\ lot_number' = UpdateLotNumber(lot_number, resp)
               /\ attempt' = attempt + 1
               /\ UNCHANGED <<pc, data, puzzle, solver_result, outcome,
                              current_w>>
        /\ UNCHANGED sign_calls
        /\ events' = Append(events, "verify")

\* the continue branch: update the state, sign again, next iteration
SubmitContinue ==
    \E reply \in VerifyReplies :
        /\ VerifyCall(reply)
        /\ IsOk(submit_captcha(reply))
        /\ Classify(submit_captcha(reply).val) = "continue"
        /\ LET resp == submit_captcha(reply).val
               w == generate_w_parameter(data, constants,
                                         RetrySolverResult(solver_result))
           IN  IF IsOk(w)
               THEN /\ payload' = UpdatePayload(payload, resp)
                    /\ process_token' = UpdateProcessToken(process_token, resp)
                    /\ lot_number' = UpdateLotNumber(lot_number, resp)
                    /\ current_w' = w.val
                    /\ attempt' = attempt + 1
                    /\ UNCHANGED <<pc, data, puzzle, solver_result, outcome>>
               ELSE Return(w)
        /\ sign_calls' = sign_calls + 1
        /\ events' = events \o <<"verify", "sign">>

\* no seccode and not a continue: the verification failed
SubmitFailed ==
    \E reply \in VerifyReplies :
        /\ VerifyCall(reply)
        /\ IsOk(submit_captcha(reply))
        /\ Classify(submit_captcha(reply).val) = "failed"
        /\ Return(Err("VerificationFailed",
                      FailureMessage(submit_captcha(reply).val.result)))
        /\ events' = Append(events, "verify")
        /\ UNCHANGED sign_calls

\* the loop ran MAX_RETRIES times without returning
MaxRetriesExceeded ==
    /\ pc = "submit"
    /\ ~LoopContinues(attempt)
    /\ Return(Err("VerificationFailed", MaxRetriesMessage))
    /\ UNCHANGED <<risk_type, icon_feature, constants, last_call, last_reply,
                   verify_calls, solver_calls, sign_calls, continues, events>>
    /\ UNCHANGED fn_vars

Next ==
    \/ Load
    \/ Solve
    \/ Sign
    \/ SubmitError
    \/ SubmitSuccess
    \/ SubmitContinue
    \/ SubmitFailed
    \/ MaxRetriesExceeded

Spec == Init /\ [][Next]_vars

---------------------------------------------------------------------------
(* encrypt_w called on its own, on every input of the bounded sets *)

\* solve() is not running
SessionIdle ==
    /\ pc = "done"
    /\ risk_type = "ai"
    /\ icon_feature = FALSE
    /\ constants = [mapping |-> "dq_dq"]
    /\ data = NoData
    /\ puzzle = NoPuzzle
    /\ solver_result = None
    /\ lot_number = -1
    /\ payload = ""
    /\ process_token = ""
    /\ current_w = NoW
    /\ attempt = 0
    /\ outcome = Running
    /\ last_call = NoCall
    /\ last_reply = NoReply
    /\ verify_calls = 0
    /\ solver_calls = 0
    /\ sign_calls = 0
    /\ continues = 0
    /\ events = <<>>

EncIdle ==
    /\ enc_in = <<>>
    /\ enc_pt = ""
    /\ enc_uid = ""
    /\ enc_out = NoEncOut

InitEnc ==
    /\ SessionIdle
    /\ EncIdle
    /\ FnIdle

EncryptCall ==
    /\ \E raw \in Plaintexts, pt \in ProtocolTypes, uid \in Uids :
         /\ enc_in' = raw
         /\ enc_pt' = pt
         /\ enc_uid' = uid
         /\ enc_out' = encrypt_w(raw, pt, uid)
    /\ UNCHANGED <<session_vars, call_vars, sessions,
                   pow_vars, vp_vars, sig_vars, pat_vars, map_vars>>

NextEnc == EncryptCall

SpecEnc == InitEnc /\ [][NextEnc]_vars

---------------------------------------------------------------------------
(* crypto/mod.rs, aes_enc.rs, rsa_enc.rs: the string of the hybrid mode *)

\* the block size of AES-128
AES_BLOCK == 16
\* the size of the 1024-bit RSA modulus, in bytes
RSA_BYTES == 128
\* longest raw_input encrypted in the hybrid mode
MaxHybridLen == 33

\* `plaintext.as_bytes()`: the characters of the model are ASCII
as_bytes(s) == [i \in 1..Len(s) |-> Code(s[i])]

\* Pkcs7: k bytes of value k, k = 16 - (n mod 16), a whole block when the
\* length is a multiple of 16
Pkcs7Pad(bytes) ==
    LET k == AES_BLOCK - (Len(bytes) % AES_BLOCK)
    IN  bytes \o [i \in 1..k |-> k]

\* the bytes of a ciphertext: byte `at` of the result of `alg` on `of`
CipherByte(alg, of, at) == [alg |-> alg, of |-> of, at |-> at]

\* encrypt_aes_cbc as a Vec<u8>: CBC keeps the length of the padded input
encrypt_aes_cbc_bytes(plaintext, key) ==
    [j \in 1..Len(Pkcs7Pad(as_bytes(plaintext))) |->
        CipherByte("aes_cbc", encrypt_aes_cbc(plaintext, key), j)]

\* hex::encode: two characters per byte, the high digit first
hex_encode(bytes) ==
    [i \in 1..(2 * Len(bytes)) |->
        [hex_of |-> bytes[(i + 1) \div 2], digit |-> 2 - (i % 2)]]

\* the random padding bytes of PKCS1v1.5
RsaPaddings == {"padding1", "padding2"}

\* encrypt_rsa as the hex string it returns: the ciphertext has the size of
\* the modulus
encrypt_rsa_hex(message, padding) ==
    hex_encode([j \in 1..RSA_BYTES |->
                  CipherByte("rsa", [rsa |-> message, padding |-> padding], j)])

\* a faulty concatenation, against which C11 is tested: the key comes first
HybridStringKeyFirst(raw_input, uid, padding) ==
    encrypt_rsa_hex(uid, padding) \o hex_encode(encrypt_aes_cbc_bytes(raw_input, uid))

\* `Ok(hex::encode(enc_input) + &enc_key)`
HybridString(raw_input, uid, padding) ==
    hex_encode(encrypt_aes_cbc_bytes(raw_input, uid)) \o encrypt_rsa_hex(uid, padding)

\* encrypt_w with its output as a string of characters
encrypt_w_string(raw_input, pt, uid, padding) ==
    LET branch == EncryptBranch(pt) IN
    IF branch = "urlencode"
    THEN [result |-> Ok(urlencoding_encode(raw_input)), uids_drawn |-> 0]
    ELSE [result |->
            IF branch = "hybrid"
            THEN Ok(HybridString(raw_input, uid, padding))
            ELSE EncryptError(pt),
          uids_drawn |-> 1]

\* raw inputs of every length up to MaxHybridLen
HybridPlaintexts ==
    {[i \in 1..n |-> IF i = n THEN c ELSE "a"] :
        n \in 0..MaxHybridLen, c \in {"a", "{"}}

\* one call per run
HybridCall ==
    /\ enc_out = NoEncOut
    /\ \E raw \in HybridPlaintexts, pt \in ProtocolTypes, uid \in Uids,
          padding \in RsaPaddings :
         /\ enc_in' = raw
         /\ enc_pt' = pt
         /\ enc_uid' = uid
         /\ enc_out' = encrypt_w_string(raw, pt, uid, padding)
    /\ UNCHANGED <<session_vars, call_vars, sessions,
                   pow_vars, vp_vars, sig_vars, pat_vars, map_vars>>

\* every function run on its own starts from InitEnc: nothing is running
SpecHybrid == InitEnc /\ [][HybridCall]_vars

---------------------------------------------------------------------------
(* crypto/pow.rs: generate_pow and verify_pow *)

\* largest `bits` of a search
MaxBits == 9
\* longest digest given to verify_pow on its own
MaxDigestLen == 2
\* rejected candidates are counted up to MaxRejected
MaxRejected == 3


HexLowerDigits == <<"0", "1", "2", "3", "4", "5", "6", "7",
                    "8", "9", "a", "b", "c", "d", "e", "f">>

\* the code point of a lowercase hex digit, by which `<=` compares chars
HexCode(c) ==
    CASE c = "0" -> 48 [] c = "1" -> 49 [] c = "2" -> 50 [] c = "3" -> 51
      [] c = "4" -> 52 [] c = "5" -> 53 [] c = "6" -> 54 [] c = "7" -> 55
      [] c = "8" -> 56 [] c = "9" -> 57 [] c = "a" -> 97 [] c = "b" -> 98
      [] c = "c" -> 99 [] c = "d" -> 100 [] c = "e" -> 101 [] c = "f" -> 102

\* a faulty threshold, against which C13 is tested: remainder 1 accepts '8'
PowThresholdOffByOne(bit_remainder) ==
    CASE bit_remainder = 1 -> "8"
      [] bit_remainder = 2 -> "3"
      [] bit_remainder = 3 -> "1"

\* `let threshold = match bit_remainder { 1 => '7', 2 => '3', 3 => '1', .. }`
PowThreshold(bit_remainder) ==
    CASE bit_remainder = 1 -> "7"
      [] bit_remainder = 2 -> "3"
      [] bit_remainder = 3 -> "1"

verify_pow(hash, prefix, bit_remainder, bit_division) ==
    IF ~(Len(prefix) <= Len(hash) /\ SubSeq(hash, 1, Len(prefix)) = prefix)
    THEN FALSE
    ELSE IF bit_remainder = 0 THEN TRUE
    ELSE IF bit_division + 1 <= Len(hash)
    THEN IF bit_remainder \in {1, 2, 3}
         THEN HexCode(hash[bit_division + 1])
                  <= HexCode(PowThreshold(bit_remainder))
         ELSE FALSE
    ELSE FALSE

\* `"0".repeat(bit_division)`
PowPrefix(bits) == [i \in 1..(bits \div 4) |-> "0"]

\* a faulty acceptance, against which C12 is tested: only the prefix counts
PowAcceptsPrefixOnly(hash, bits) == verify_pow(hash, PowPrefix(bits), 0, bits \div 4)

\* `verify_pow(&hash, &prefix, bit_remainder, bit_division)` of generate_pow
PowAccepts(hash, bits) ==
    verify_pow(hash, PowPrefix(bits), bits % 4, bits \div 4)

\* `format!("{}|{}|{}|{}|{}|{}||", version, bits, hash_func, datetime,
\* captcha_id, lot_number)`
PowBase(a) ==
    a.version \o "|" \o ToString(a.bits) \o "|" \o a.hash_func \o "|"
        \o a.datetime \o "|" \o a.captcha_id \o "|" \o a.lot_number \o "||"

\* a faulty message, against which C14 is tested: the nonce comes first
PowMsgNonceFirst(base, nonce) == nonce \o base

\* `format!("{}{}", pow_base, nonce)`
PowMsg(base, nonce) == base \o nonce

\* the arguments of a call, and the digests the hash function may give (two
\* hex digits stand for the digest)
PowArgs ==
    [lot_number : {"lot0"}, captcha_id : {"cid"}, hash_func : HashFuncs,
     version : {"1"}, bits : 0..MaxBits, datetime : {"dt"}]
PowDigests ==
    {<<"0", "0">>, <<"0", "1">>, <<"0", "3">>, <<"0", "7">>, <<"0", "8">>,
     <<"1", "f">>, <<"3", "0">>, <<"8", "0">>}

\* a faulty loop, against which C16 is tested: it gives up after one
\* rejected candidate
PowLoopCapped(rejected) == rejected < 1

\* `loop { .. }`: whether the body runs once more
PowLoop(rejected) == TRUE

\* generate_pow is entered: the prefix and the base are built once
PowCall ==
    /\ pow_pc = "idle"
    /\ \E a \in PowArgs, digest \in [Uids -> PowDigests] :
         /\ pow_args' = a
         /\ pow_digest' = digest
         /\ pow_base' = PowBase(a)
         /\ pow_prefix' = PowPrefix(a.bits)
    /\ pow_pc' = "loop"
    /\ UNCHANGED <<pow_msg, pow_hash, pow_hashed, pow_rejected, pow_out>>
    /\ UNCHANGED <<session_vars, call_vars, sessions,
                   enc_vars, vp_vars, sig_vars, pat_vars, map_vars>>

\* an iteration with an unknown hash function name: the match panics
PowPanic ==
    /\ pow_pc = "loop"
    /\ PowLoop(pow_rejected)
    /\ pow_args.hash_func \notin {"md5", "sha1", "sha256"}
    /\ \E nonce \in Uids : pow_msg' = PowMsg(pow_base, nonce)
    /\ pow_pc' = "panicked"
    /\ UNCHANGED <<pow_args, pow_digest, pow_base, pow_prefix, pow_hash,
                   pow_hashed, pow_rejected, pow_out>>
    /\ UNCHANGED <<session_vars, call_vars, sessions,
                   enc_vars, vp_vars, sig_vars, pat_vars, map_vars>>

\* an iteration in which rand_uid() returns nonce: the candidate is hashed
\* and either returned or dropped
PowIterate(nonce) ==
    /\ pow_pc = "loop"
    /\ PowLoop(pow_rejected)
    /\ pow_args.hash_func \in {"md5", "sha1", "sha256"}
    /\ pow_msg' = PowMsg(pow_base, nonce)
    /\ pow_hash' = pow_digest[nonce]
    /\ pow_hashed' = IF pow_hashed <= MaxRejected THEN pow_hashed + 1
                     ELSE pow_hashed
    /\ IF PowAccepts(pow_hash', pow_args.bits)
       THEN /\ pow_out' = [pow_msg |-> pow_msg', pow_sign |-> pow_hash']
            /\ pow_pc' = "returned"
            /\ UNCHANGED pow_rejected
       ELSE /\ pow_rejected' = IF pow_rejected < MaxRejected
                               THEN pow_rejected + 1 ELSE pow_rejected
            /\ UNCHANGED <<pow_pc, pow_out>>
    /\ UNCHANGED <<pow_args, pow_digest, pow_base, pow_prefix>>
    /\ UNCHANGED <<session_vars, call_vars, sessions,
                   enc_vars, vp_vars, sig_vars, pat_vars, map_vars>>

NextPow ==
    \/ PowCall
    \/ PowPanic
    \/ \E nonce \in Uids : PowIterate(nonce)

SpecPow == InitEnc /\ [][NextPow]_vars

\* nonce generation is fair: while the search runs, every nonce is drawn again
FairSpecPow == SpecPow /\ \A nonce \in Uids : WF_vars(PowIterate(nonce))

\* verify_pow called on its own, as generate_pow calls it, on every digest
\* up to MaxDigestLen and every bits up to 4 * MaxDigestLen + 1
VerifyPowCall ==
    /\ vp_bits = -1
    /\ \E digest \in SeqsUpTo({HexLowerDigits[i] : i \in 1..16}, MaxDigestLen),
          bits \in 0..(4 * MaxDigestLen + 1) :
         /\ vp_hash' = digest
         /\ vp_bits' = bits
         /\ vp_out' = PowAccepts(digest, bits)
    /\ UNCHANGED <<session_vars, call_vars, sessions,
                   enc_vars, pow_vars, sig_vars, pat_vars, map_vars>>

SpecVerifyPow == InitEnc /\ [][VerifyPowCall]_vars

---------------------------------------------------------------------------
(* sign.rs: the payload of generate_w_parameter *)

\* A serde_json Map is a sequence of <<key, value>> entries with one entry
\* per key; a Value is written as its JSON text.  Map::insert replaces the
\* value of a key that is present and adds an entry otherwise.
Insert(map, k, v) ==
    IF \E i \in 1..Len(map) : map[i][1] = k
    THEN [i \in 1..Len(map) |-> IF map[i][1] = k THEN <<k, v>> ELSE map[i]]
    ELSE Append(map, <<k, v>>)

\* `for (k, v) in entries { map.insert(k, v); }`
RECURSIVE InsertAll(_, _)
InsertAll(map, entries) ==
    IF entries = <<>> THEN map
    ELSE InsertAll(Insert(map, Head(entries)[1], Head(entries)[2]),
                   Tail(entries))

\* the `json!({..})` of the base fields
BasePayload(lot, pow_msg_, pow_sign_) ==
    << <<"geetest", "\"captcha\"">>, <<"lang", "\"zh\"">>,
       <<"ep", "\"123\"">>, <<"biht", "\"1426265548\"">>,
       <<"device_id", "\"\"">>,
       <<"lot_number", "\"" \o lot \o "\"">>,
       <<"pow_msg", "\"" \o pow_msg_ \o "\"">>,
       <<"pow_sign", "\"" \o pow_sign_ \o "\"">>,
       <<"em", "{\"cp\":0,\"ek\":\"11\",\"nt\":0,\"ph\":0,\"sc\":0,\"si\":0,\"wd\":1}">>,
       <<"gee_guard", "{\"roe\":{\"auh\":\"3\",\"aup\":\"3\",\"cdc\":\"3\",\"egp\":\"3\",\"res\":\"3\",\"rew\":\"3\",\"sep\":\"3\",\"snh\":\"3\"}}">> >>

\* `vec![vec![result[0][0], result[0][1]], vec![result[1][0], result[1][1]]]`
\* of solve_captcha, on the [remove, fill] that find_four_in_line returns
GobangResponse(result) ==
    << <<result[1][1], result[1][2]>>, <<result[2][1], result[2][2]>> >>

\* What the payload is built from: constants.abo (any of three keys, each
\* with its own string), the object get_dict returned (one top-level key),
\* the solver result and the value of rand::random::<u32>().  found is the
\* answer of the gobang solver behind a Gobang result.
PayloadInputs ==
    LET abo_keys == <<"lang", "k9", "passtime">>
        abos == {SelectSeq([i \in 1..3 |-> <<abo_keys[i],
                                              "\"abo " \o abo_keys[i] \o "\"">>],
                           LAMBDA e : e[1] \in ks) : ks \in SUBSET {"lang", "k9", "passtime"}}
        lot_dicts == {<< <<k, "{\"44\":{\"c5c270c\":\"4c44d\"}}">> >> :
                         k \in {"4c44", "ep", "k9", "setLeft"}}
        founds == {<< <<0, 1>>, <<2, 3>> >>, << <<2, 3>>, <<0, 1>> >>}
        plain == {None, Some([variant |-> "Ai"]),
                  Some([variant |-> "Slide", left |-> "100.25"]),
                  Some([variant |-> "Icon",
                        positions |-> << <<"10.5", "20.0">>, <<"3.0", "4.5">> >>])}
        randoms == {0, 599, 600, 1199, 1200, 2147483647}
    IN  [abo : abos, lot_dict : lot_dicts, solver_result : plain,
         random : randoms, found : {<<>>}]
        \cup {[abo |-> a, lot_dict |-> l,
               solver_result |-> Some([variant |-> "Gobang",
                                       response |-> GobangResponse(f)]),
               random |-> r, found |-> f] :
                 a \in abos, l \in lot_dicts, f \in founds, r \in {0}}

\* a faulty range, against which C18 is tested: 600 to 1200 inclusive
passtime_inclusive(random) == (random % 601) + 600

\* `rand::random::<u32>() % 600 + 600`
passtime(random) == (random % 600) + 600

\* the JSON text of a list of pairs of numbers
RECURSIVE json_pairs(_)
json_pairs(pairs) ==
    IF pairs = <<>> THEN ""
    ELSE "[" \o Head(pairs)[1] \o "," \o Head(pairs)[2] \o "]"
         \o (IF Len(pairs) > 1 THEN "," ELSE "") \o json_pairs(Tail(pairs))

\* the entries `match result { .. }` inserts for a solver result, in the
\* order of the inserts; the rescaled offset is written as its expression
SolverFields(sr, random) ==
    IF sr = None THEN <<>>
    ELSE LET result == Unwrap(sr) IN
         CASE result.variant = "Slide" ->
                << <<"passtime", ToString(passtime(random))>>,
                   <<"setLeft", result.left>>,
                   <<"userresponse",
                     result.left \o "/1.0059466666666665+2.0">> >>
           [] result.variant = "Gobang" ->
                << <<"userresponse",
                     "[" \o json_pairs(
                        [i \in 1..Len(result.response) |->
                            <<ToString(result.response[i][1]),
                              ToString(result.response[i][2])>>]) \o "]">> >>
           [] result.variant = "Icon" ->
                << <<"passtime", ToString(passtime(random))>>,
                   <<"userresponse",
                     "[" \o json_pairs(result.positions) \o "]">> >>
           [] OTHER -> <<>>

\* a faulty merge, against which C17 is tested: the abo constants go last
BuildPayloadAboLast(base, abo, lot_dict, solver_fields) ==
    InsertAll(InsertAll(InsertAll(base, lot_dict), solver_fields), abo)

\* the merges of generate_w_parameter, in its order
BuildPayload(base, abo, lot_dict, solver_fields) ==
    InsertAll(InsertAll(InsertAll(base, abo), lot_dict), solver_fields)

\* the payload map of one generate_w_parameter call
BuildPayloadCall ==
    /\ sig_in = <<>>
    /\ \E input \in PayloadInputs :
         /\ sig_in' = input
         /\ sig_payload' =
              BuildPayload(BasePayload("lot0", "pow_msg0", "pow_sign0"),
                           input.abo, input.lot_dict,
                           SolverFields(input.solver_result, input.random))
    /\ UNCHANGED <<session_vars, call_vars, sessions,
                   enc_vars, pow_vars, vp_vars, pat_vars, map_vars>>

SpecPayload == InitEnc /\ [][BuildPayloadCall]_vars

---------------------------------------------------------------------------
(* sign.rs: LotParser::parse_pattern and LotParser::new *)

\* most groups of a generated pattern
MaxGroups == 3
\* longest mapping string given to LotParser::new
MaxMappingLen == 7

\* `s.split(sep)`: the parts between the non-overlapping occurrences of sep,
\* found from the left
RECURSIVE split_str(_, _)
split_str(s, sep) ==
    LET n == Len(sep)
        hits == {i \in 1..(Len(s) - n + 1) : SubSeq(s, i, i + n - 1) = sep}
    IN  IF hits = {} THEN <<s>>
        ELSE LET i == CHOOSE h \in hits : \A g \in hits : h <= g
             IN  <<SubSeq(s, 1, i - 1)>>
                 \o split_str(SubSeq(s, i + n, Len(s)), sep)

\* `m.as_str().parse::<i32>()` on a run of ASCII digits: -1 stands for the
\* error of a value that does not fit
RECURSIVE parse_i32(_)
parse_i32(digits) ==
    IF digits = <<>> THEN 0
    ELSE LET v == parse_i32(SubSeq(digits, 1, Len(digits) - 1))
             d == HexCode(digits[Len(digits)]) - 48
         IN  IF v = -1 \/ v > (2147483647 - d) \div 10 THEN -1
             ELSE v * 10 + d

\* `slice_re.captures(sub)` for \[(\d+):(\d+)\] and the two numbers taken
\* from the leftmost match (0 for a number that does not parse)
find_slice(sub) ==
    LET IsDigit(c) == c \in {"0", "1", "2", "3", "4", "5", "6", "7", "8", "9"}
        run(i) == CHOOSE n \in 0..Len(sub) :
                    /\ \A j \in i..(i + n - 1) : j <= Len(sub) /\ IsDigit(sub[j])
                    /\ i + n > Len(sub) \/ ~IsDigit(sub[i + n])
        at(i, c) == i <= Len(sub) /\ sub[i] = c
        matches(i) ==
            /\ sub[i] = "["
            /\ run(i + 1) >= 1
            /\ at(i + 1 + run(i + 1), ":")
            /\ run(i + 2 + run(i + 1)) >= 1
            /\ at(i + 2 + run(i + 1) + run(i + 2 + run(i + 1)), "]")
        hits == {i \in 1..Len(sub) : matches(i)}
        or_0(v) == IF v = -1 THEN 0 ELSE v
    IN  IF hits = {} THEN None
        ELSE LET i == CHOOSE h \in hits : \A g \in hits : h <= g
                 a == run(i + 1)
                 b == run(i + 2 + a)
             IN  Some(<<or_0(parse_i32(SubSeq(sub, i + 1, i + a))),
                        or_0(parse_i32(SubSeq(sub, i + 2 + a, i + 1 + a + b)))>>)

\* the group of one part: the slices of its '+'-separated pieces
parse_group(part) ==
    LET subs == split_str(part, <<"+">>)
        found == [i \in 1..Len(subs) |-> find_slice(subs[i])]
        kept == SelectSeq(found, LAMBDA f : IsSome(f))
    IN  [i \in 1..Len(kept) |-> Unwrap(kept[i])]

\* a faulty compilation, against which C19 is tested: the group separator
\* is not looked for
parse_pattern_one_group(pattern) ==
    SelectSeq(<<parse_group(pattern)>>, LAMBDA group : group # <<>>)

\* parse_pattern: the groups of the "+.+"-separated parts, without the
\* empty ones
parse_pattern(pattern) ==
    LET parts == split_str(pattern, <<"+", ".", "+">>)
    IN  SelectSeq([i \in 1..Len(parts) |-> parse_group(parts[i])],
                  LAMBDA group : group # <<>>)

\* the groups a pattern is written from: up to MaxGroups groups of one or
\* two slices, the key pattern and the value pattern of the mapping in the
\* documentation of LotParser::new; each is written with or without
\* parentheses around its groups
PatternShapes ==
    LET pairs == {<<3, 5>>, <<20, 127>>}
        groups == {<<p>> : p \in pairs} \cup {<<p, q>> : p, q \in pairs}
        RECURSIVE upto(_)
        upto(n) == IF n = 0 THEN {<<>>}
                   ELSE upto(n - 1)
                        \cup {Append(s, g) : s \in upto(n - 1), g \in groups}
    IN  [groups : (upto(MaxGroups) \ {<<>>})
                    \cup {<< <<<<13, 15>>, <<3, 5>>>>,
                             <<<<1, 3>>, <<26, 28>>>>,
                             <<<<20, 27>>>> >>,
                          << <<<<13, 18>>>> >>},
         parens : BOOLEAN]

\* the text of a pattern: n[start:end] joined by "+" in a group, the groups
\* joined by "+.+"
RenderPattern(shape) ==
    LET digit(d) == HexLowerDigits[d + 1]
        number(n) == IF n < 10 THEN <<digit(n)>>
                     ELSE IF n < 100 THEN <<digit(n \div 10), digit(n % 10)>>
                     ELSE <<digit(n \div 100), digit((n \div 10) % 10),
                            digit(n % 10)>>
        slice(p) == <<"n", "[">> \o number(p[1]) \o <<":">> \o number(p[2])
                        \o <<"]">>
        RECURSIVE join(_, _, _)
        join(items, text(_), sep) ==
            IF Len(items) = 1 THEN text(items[1])
            ELSE text(items[1]) \o sep \o join(Tail(items), text, sep)
        group(g) == IF shape.parens
                    THEN <<"(">> \o join(g, slice, <<"+">>) \o <<")">>
                    ELSE join(g, slice, <<"+">>)
    IN  join(shape.groups, group, <<"+", ".", "+">>)

ParsePatternCall ==
    /\ pat_in = <<>>
    /\ \E shape \in PatternShapes :
         /\ pat_shape' = shape
         /\ pat_in' = RenderPattern(shape)
         /\ pat_out' = parse_pattern(RenderPattern(shape))
    /\ UNCHANGED <<session_vars, call_vars, sessions,
                   enc_vars, pow_vars, vp_vars, sig_vars, map_vars>>

SpecPattern == InitEnc /\ [][ParsePatternCall]_vars

\* `Regex::new("([^"]+)":Q([^Q]+)Q).captures(mapping)`, Q being the quote
\* around the value: the two groups of the leftmost match
regex_captures(mapping, quote) ==
    LET n == Len(mapping)
        \* the first index from i on that holds q (n + 1 when there is none)
        next(i, q) == CHOOSE j \in i..(n + 1) :
                        /\ j = n + 1 \/ mapping[j] = q
                        /\ \A x \in i..(j - 1) : mapping[x] # q
        key_end(i) == next(i + 1, "\"")
        value_end(i) == next(key_end(i) + 3, quote)
        matches(i) ==
            /\ mapping[i] = "\""
            /\ key_end(i) >= i + 2
            /\ key_end(i) + 2 <= n
            /\ mapping[key_end(i) + 1] = ":"
            /\ mapping[key_end(i) + 2] = quote
            /\ value_end(i) >= key_end(i) + 4
            /\ value_end(i) <= n
        hits == {i \in 1..n : matches(i)}
    IN  IF hits = {} THEN None
        ELSE LET i == CHOOSE h \in hits : \A g \in hits : h <= g
             IN  Some(<<SubSeq(mapping, i + 1, key_end(i) - 1),
                        SubSeq(mapping, key_end(i) + 3, value_end(i) - 1)>>)

\* a faulty constructor, against which C20 is tested: no fallback form
LotParser_new_no_fallback(mapping) ==
    LET caps == regex_captures(mapping, "\"")
    IN  IF caps = None THEN Err("Encryption", "Invalid mapping format")
        ELSE Ok([lot |-> parse_pattern(Unwrap(caps)[1]),
                 lot_res |-> parse_pattern(Unwrap(caps)[2])])

\* LotParser::new on the text of the mapping
LotParser_new_text(mapping) ==
    LET first == regex_captures(mapping, "\"")
        caps == IF IsSome(first) THEN first ELSE regex_captures(mapping, "'")
    IN  IF caps = None THEN Err("Encryption", "Invalid mapping format")
        ELSE Ok([lot |-> parse_pattern(Unwrap(caps)[1]),
                 lot_res |-> parse_pattern(Unwrap(caps)[2])])

\* mapping strings: every string of up to MaxMappingLen of four characters,
\* and mappings of slice patterns in the two quoted forms, in single quotes
\* only, and with the two forms one after the other
MappingStrings ==
    LET key == RenderPattern([groups |-> << <<<<1, 3>>, <<26, 28>>>>,
                                             <<<<20, 27>>>> >>,
                              parens |-> TRUE])
        value == RenderPattern([groups |-> << <<<<13, 18>>>> >>,
                                parens |-> FALSE])
        other == RenderPattern([groups |-> << <<<<3, 5>>>> >>,
                                parens |-> FALSE])
        form(k, q1, q2, v) == <<q1>> \o k \o <<q1, ":", q2>> \o v \o <<q2>>
    IN  SeqsUpTo({"\"", "'", ":", "n"}, MaxMappingLen)
        \cup {<<"{">> \o form(key, "\"", "\"", value) \o <<"}">>,
              <<"{">> \o form(key, "\"", "'", value) \o <<"}">>,
              <<"{">> \o form(key, "'", "'", value) \o <<"}">>,
              form(key, "\"", "'", value) \o form(other, "\"", "\"", other),
              form(key, "\"", "\"", value) \o form(other, "\"", "'", other)}

LotParserNewCall ==
    /\ map_out = <<>>
    /\ \E mapping \in MappingStrings :
         /\ map_in' = mapping
         /\ map_out' = LotParser_new_text(mapping)
    /\ UNCHANGED <<session_vars, call_vars, sessions,
                   enc_vars, pow_vars, vp_vars, sig_vars, pat_vars>>

SpecLotParser == InitEnc /\ [][LotParserNewCall]_vars

---------------------------------------------------------------------------
(* sign.rs: LotParser::build_string and LotParser::get_dict *)

\* longest lot number written over the two-character alphabet
MaxLotLen == 3
\* most groups of a compiled program given to build_string
MaxProgramGroups == 2

\* lot numbers as characters: the lot number of the documentation of
\* get_dict and every string of up to MaxLotLen characters, '.' among them
LotNumbers ==
    SeqsUpTo({"a", "."}, MaxLotLen)
    \cup {<<"f", "4", "7", "4", "4", "c", "4", "4", "d", "f", "4", "5", "4",
            "1", "b", "3", "b", "e", "4", "8", "c", "5", "c", "2", "7", "0",
            "c", "e", "d", "2", "0", "b">>}

\* compiled programs as parse_pattern returns them: up to MaxProgramGroups
\* groups of <<start, end>> pairs of i32 values that are not negative (a
\* slice inside the lot number, one character, one reaching past the end, one
\* starting past the end, start = end + 1, start > end + 1, end = i32::MAX)
Programs ==
    LET slices == {<<3, 5>>, <<0, 0>>, <<1, 100>>, <<40, 41>>, <<2, 1>>,
                   <<5, 2>>, <<0, 2147483647>>}
        groups == {<<p>> : p \in slices}
                    \cup {<<<<13, 15>>, <<3, 5>>>>, <<<<1, 3>>, <<26, 28>>>>,
                          <<<<0, 0>>, <<2, 1>>>>}
        RECURSIVE upto(_)
        upto(n) == IF n = 0 THEN {<<>>}
                   ELSE upto(n - 1)
                        \cup {Append(s, g) : s \in upto(n - 1), g \in groups}
    IN  upto(MaxProgramGroups)

\* build_string.  `(slice[1] + 1) as usize` on end = i32::MAX aborts in a
\* build with overflow checks (the dev profile) and wraps to i32::MIN, as
\* usize 2^64 - 2^31, in a build without (the release profile), where
\* `end.min(chars.len())` is then the length.  `chars.get(a..b)` is None,
\* hence "", when a > b.
build_string(parsed, lot_chars, overflow_checks) ==
    LET len == Len(lot_chars)
        overflows(slice) == slice[2] = 2147483647
        end(slice) == IF overflows(slice) \/ slice[2] + 1 > len THEN len
                      ELSE slice[2] + 1
        piece(slice) == IF slice[1] <= end(slice)
                        THEN SubSeq(lot_chars, slice[1] + 1, end(slice))
                        ELSE <<>>
        RECURSIVE concat(_)
        concat(group) == IF group = <<>> THEN <<>>
                         ELSE piece(Head(group)) \o concat(Tail(group))
        RECURSIVE join(_)
        join(gs) == IF gs = <<>> THEN <<>>
                    ELSE IF Len(gs) = 1 THEN concat(gs[1])
                    ELSE concat(gs[1]) \o <<".">> \o join(Tail(gs))
    IN  IF overflow_checks
           /\ \E i \in 1..Len(parsed) :
                \E j \in 1..Len(parsed[i]) : overflows(parsed[i][j])
        THEN Panic("attempt to add with overflow")
        ELSE Ok(join(parsed))

BuildStringCall ==
    /\ call_fn = ""
    /\ \E parsed \in Programs, lot_chars \in LotNumbers, checks \in BOOLEAN :
         /\ call_fn' = "build_string"
         /\ call_in' = [parsed |-> parsed, lot_number |-> lot_chars,
                        overflow_checks |-> checks]
         /\ call_out' = build_string(parsed, lot_chars, checks)
    /\ UNCHANGED <<session_vars, enc_vars, pow_vars, vp_vars, sig_vars,
                   pat_vars, map_vars, sessions>>

SpecBuildString == InitEnc /\ [][BuildStringCall]_vars

\* serde_json Values: a string, or an object of <<key, value>> entries
JsonString(s) == [str |-> s]
JsonObject(entries) == [obj |-> entries]

\* get_dict on the characters of the lot number.  `key_str.split('.')` of
\* the empty string is [""], so `parts` always holds a part; the loop
\* enters a new empty object under every part but the last, which gets the
\* value string.
get_dict_text(parser, lot_chars, overflow_checks) ==
    LET key_str == build_string(parser.lot, lot_chars, overflow_checks)
        value_str == build_string(parser.lot_res, lot_chars, overflow_checks)
        parts == split_str(key_str.val, <<".">>)
        RECURSIVE nest(_)
        nest(ps) ==
            JsonObject(Insert(<<>>, Head(ps),
                              IF Len(ps) = 1 THEN JsonString(value_str.val)
                              ELSE nest(Tail(ps))))
    IN  IF IsPanic(key_str) THEN key_str
        ELSE IF IsPanic(value_str) THEN value_str
        ELSE IF parts = <<>> THEN Ok(JsonObject(<<>>))
        ELSE Ok(nest(parts))

\* the parsers get_dict is called on: any program as key-program, three
\* value-programs
GetDictCall ==
    /\ call_fn = ""
    /\ \E lot \in Programs, lot_chars \in LotNumbers, checks \in BOOLEAN,
          lot_res \in {<<>>, <<<<<<13, 15>>, <<3, 5>>>>>>,
                       <<<<<<0, 0>>>>, <<<<1, 100>>>>>>} :
         /\ call_fn' = "get_dict"
         /\ call_in' = [parser |-> [lot |-> lot, lot_res |-> lot_res],
                        lot_number |-> lot_chars, overflow_checks |-> checks]
         /\ call_out' = get_dict_text([lot |-> lot, lot_res |-> lot_res],
                                      lot_chars, checks)
    /\ UNCHANGED <<session_vars, enc_vars, pow_vars, vp_vars, sig_vars,
                   pat_vars, map_vars, sessions>>

SpecGetDict == InitEnc /\ [][GetDictCall]_vars

---------------------------------------------------------------------------
(* models.rs: the deserialization of VerifyResponse *)

\* a JSON value of the `data` object of a verify reply: the member is
\* absent, null, a string or an integer
JsonField(kind, str, int) == [kind |-> kind, str |-> str, int |-> int]

\* deserialize_optional_string_or_int: null is None, a string is itself, an
\* i64 or u64 is `v.to_string()`, its decimal text
deserialize_optional_string_or_int(v) ==
    CASE v.kind = "string" -> Ok(Some(v.str))
      [] v.kind = "integer" -> Ok(Some(ToString(v.int)))
      [] OTHER -> Ok(None)

\* the derived Deserialize of Option<String> with #[serde(default)]: an
\* absent member and null are None, a string is itself, an integer is the
\* error "invalid type: integer, expected a string"
deserialize_option_string(v) ==
    CASE v.kind = "string" -> Ok(Some(v.str))
      [] v.kind = "integer" -> Err("Json", "JSON parsing error")
      [] OTHER -> Ok(None)

\* serde_json::from_str of the `data` object into VerifyResponse: score and
\* payload_protocol are declared with deserialize_optional_string_or_int,
\* result, payload, process_token and lot_number are plain Option<String>
deserialize_VerifyResponse(json) ==
    LET with == [f \in {"score", "payload_protocol"} |->
                    deserialize_optional_string_or_int(json[f])]
        plain == [f \in {"result", "payload", "process_token", "lot_number"} |->
                    deserialize_option_string(json[f])]
    IN  IF \E f \in DOMAIN plain : IsErr(plain[f])
        THEN Err("Json", "JSON parsing error")
        ELSE Ok([seccode |-> None, result |-> plain["result"].val,
                 score |-> with["score"].val,
                 payload |-> plain["payload"].val,
                 process_token |-> plain["process_token"].val,
                 payload_protocol |-> with["payload_protocol"].val,
                 lot_number |-> plain["lot_number"].val])

\* the `data` objects of verify replies without a seccode: result is
\* absent, "continue" or "fail", every other member is absent, null, a
\* string or an integer
DeserializeVerifyCall ==
    /\ call_fn = ""
    /\ \E json \in [{"result", "score", "payload", "process_token",
                      "payload_protocol", "lot_number"} ->
                       {JsonField("absent", "", 0), JsonField("null", "", 0),
                        JsonField("string", "7", 0),
                        JsonField("string", "continue", 0),
                        JsonField("string", "fail", 0),
                        JsonField("integer", "", 7),
                        JsonField("integer", "", -12)}] :
         /\ json["result"].kind \in {"absent", "string"}
         /\ json["result"].str # "7"
         /\ \A f \in DOMAIN json :
              f # "result" => json[f].str \notin {"continue", "fail"}
         /\ call_fn' = "deserialize_VerifyResponse"
         /\ call_in' = json
         /\ call_out' = deserialize_VerifyResponse(json)
    /\ UNCHANGED <<session_vars, enc_vars, pow_vars, vp_vars, sig_vars,
                   pat_vars, map_vars, sessions>>

SpecVerifyJson == InitEnc /\ [][DeserializeVerifyCall]_vars

---------------------------------------------------------------------------
(* client.rs: two solve() calls running concurrently on one Geeked value *)

\* most continue responses the server gives to one of the two sessions
MaxTwoContinues == 2

\* The locals of one solve() call, with the verify calls it made and the
\* responses it received (load reply, solver environment, verify replies).
SolveLocals ==
    [pc |-> "load", data |-> NoData, puzzle |-> NoPuzzle,
     solver_result |-> None, lot_number |-> -1, payload |-> "",
     process_token |-> "", current_w |-> NoW, attempt |-> 0,
     outcome |-> Running, calls |-> <<>>, inputs |-> <<>>]

\* whether the next step of a call waits for a response
AwaitsInput(s) ==
    \/ s.pc \in {"load", "solve"}
    \/ s.pc = "submit" /\ LoopContinues(s.attempt)

\* One step of solve() on its locals s: `geeked` is the value behind &self
\* (read only), `input` the response the step receives when it awaits one.
solve_step(s, geeked, input) ==
    LET got == [s EXCEPT !.inputs = Append(@, input)]
        returned(t, result) ==
            [t EXCEPT !.pc = "done", !.outcome = result, !.data = NoData,
                      !.puzzle = NoPuzzle, !.solver_result = None,
                      !.lot_number = -1, !.payload = "",
                      !.process_token = "", !.current_w = NoW, !.attempt = 0]
    IN  CASE s.pc = "load" ->
               LET r == load_captcha(input) IN
               IF IsOk(r)
               THEN [got EXCEPT !.pc = "solve", !.data = DataOf(r.val),
                                !.puzzle = PuzzleOf(r.val)]
               ELSE returned(got, r)
          [] s.pc = "solve" ->
               LET r == solve_captcha(geeked.risk_type, geeked.icon_feature,
                                      s.puzzle, input) IN
               IF IsOk(r)
               THEN [got EXCEPT !.pc = "sign", !.solver_result = Some(r.val),
                                !.puzzle = NoPuzzle]
               ELSE returned(got, r)
          [] s.pc = "sign" ->
               LET r == generate_w_parameter(s.data, geeked.constants,
                                             s.solver_result) IN
               IF IsOk(r)
               THEN [s EXCEPT !.pc = "submit",
                              !.lot_number = s.data.lot_number,
                              !.payload = s.data.payload,
                              !.process_token = s.data.process_token,
                              !.current_w = r.val]
               ELSE returned(s, r)
          [] s.pc = "submit" /\ ~LoopContinues(s.attempt) ->
               returned(s, Err("VerificationFailed", MaxRetriesMessage))
          [] s.pc = "submit" /\ LoopContinues(s.attempt) ->
               LET called == [got EXCEPT !.calls =
                                 Append(@, VerifyParams(s.lot_number, s.payload,
                                                        s.process_token,
                                                        s.current_w))]
                   r == submit_captcha(input)
                   w == generate_w_parameter(s.data, geeked.constants,
                                             RetrySolverResult(s.solver_result))
               IN  IF ~IsOk(r) THEN returned(called, r)
                   ELSE IF Classify(r.val) = "success"
                   THEN returned(called, Ok(Unwrap(r.val.seccode)))
                   ELSE IF Classify(r.val) = "failed"
                   THEN returned(called, Err("VerificationFailed",
                                             FailureMessage(r.val.result)))
                   ELSE IF ~IsOk(w) THEN returned(called, w)
                   ELSE [called EXCEPT
                            !.payload = UpdatePayload(s.payload, r.val),
                            !.process_token =
                                UpdateProcessToken(s.process_token, r.val),
                            !.lot_number = UpdateLotNumber(s.lot_number, r.val),
                            !.current_w = w.val,
                            !.attempt = s.attempt + 1]
          [] OTHER -> s

\* a faulty placement of the retry state, against which C25 is tested: the
\* lot number is a field of the Geeked value, which every call writes
StoreLocalsShared(all, i, s) ==
    [j \in DOMAIN all |->
        IF j = i THEN s
        ELSE IF all[j].pc = "submit"
        THEN [all[j] EXCEPT !.lot_number = s.lot_number]
        ELSE all[j]]

\* `let mut lot_number .. let mut current_w`: the state of a call lives in
\* the future of that call, a step writes the locals of its own call only
StoreLocals(all, i, s) == [all EXCEPT ![i] = s]

\* two tasks call solve() on the same Geeked value
StartSessions ==
    /\ sessions = <<>>
    /\ call_fn = ""
    /\ sessions' = <<SolveLocals, SolveLocals>>
    /\ UNCHANGED <<session_vars, enc_vars, pow_vars, vp_vars, sig_vars,
                   pat_vars, map_vars, call_vars>>

\* the scheduler runs one step of call i; the responses are a load reply
\* (data or transport error), the solver's environment and a verify reply
\* (two continues with updates, a seccode, a failure, a transport error)
SessionStep(i) ==
    /\ sessions # <<>>
    /\ sessions[i].pc # "done"
    /\ LET s == sessions[i]
           geeked == [risk_type |-> risk_type, icon_feature |-> icon_feature,
                      constants |-> constants]
           loads == {r \in LoadReplies :
                        \/ ~r.sent /\ ~r.found
                        \/ /\ r.status = "success"
                           /\ r.data.pt = "1" /\ r.data.hashfunc = "md5"
                           /\ ~r.data.slice /\ ~r.data.bg
                           /\ ~r.data.ques /\ ~r.data.imgs}
           envs == {e \in SolverEnvs :
                        /\ e.download_ok /\ e.image_ok /\ e.ques_ok
                        /\ e.board = "solvable"}
           verifies == {r \in VerifyReplies :
                        \/ ~r.sent /\ ~r.found
                        \/ /\ r.status = "success"
                           /\ r.data \in
                               {VerifyResponse(None, Some("continue"), None,
                                               None, Some(1)),
                                VerifyResponse(None, Some("continue"),
                                               Some("payload1"),
                                               Some("token1"), None),
                                VerifyResponse(Some("seccode1"), None, None,
                                               None, None),
                                VerifyResponse(None, Some("fail"), None, None,
                                               None)}}
           continues_got == Cardinality({k \in 1..Len(s.inputs) :
                                            /\ k > 2
                                            /\ IsContinueResponse(s.inputs[k])})
       IN  \E input \in (CASE ~AwaitsInput(s) -> {NoReply}
                           [] s.pc = "load" -> loads
                           [] s.pc = "solve" -> envs
                           [] OTHER -> {r \in verifies :
                                          IsContinueResponse(r) =>
                                            continues_got < MaxTwoContinues}) :
              sessions' = StoreLocals(sessions, i,
                                      solve_step(s, geeked, input))
    /\ UNCHANGED <<session_vars, enc_vars, pow_vars, vp_vars, sig_vars,
                   pat_vars, map_vars, call_vars>>

SpecTwo ==
    InitEnc /\ [][StartSessions \/ \E i \in {1, 2} : SessionStep(i)]_vars

---------------------------------------------------------------------------
(* deobfuscate.rs: Deobfuscator::get_constants *)

\* get_static_path on the reply to its load request: `open` is the index of
\* the first '(' and `close` the index of the last ')' of the text (None
\* when there is none).  `&text[json_start..json_end]` aborts when the last
\* ')' stands before the first '('.
get_static_path(reply) ==
    LET format == Err("Deobfuscation", "Invalid JSONP response format") IN
    IF ~reply.sent THEN Err("Http", "HTTP request failed")
    ELSE IF reply.open = None \/ reply.close = None THEN format
    ELSE IF Unwrap(reply.open) + 1 > Unwrap(reply.close)
    THEN Panic("slice index starts past its end")
    ELSE IF ~reply.json_ok THEN Err("Json", "JSON parsing error")
    ELSE IF reply.static_path = None
    THEN Err("Deobfuscation", "Missing static_path in response")
    ELSE Ok(Unwrap(reply.static_path))

\* `static_path.split('/').nth(3)`
fetch_current_version(reply) ==
    LET path == get_static_path(reply)
        segments == split_str(path.val, <<"/">>)
    IN  IF ~IsOk(path) THEN path
        ELSE IF Len(segments) < 4
        THEN Err("Deobfuscation", "Failed to extract version from path")
        ELSE Ok(segments[4])

\* the cache file: absent, not readable as CachedConstants, or holding the
\* constants extracted from the script of a version
CacheFile(state, version) ==
    [state |-> state, version |-> version, constants_of |-> version]

\* fetch_and_deobfuscate: the version of the static path, then the script
\* is requested and the constants are extracted from it (`script` is what
\* comes of that: "ok", "http" or what cannot be extracted)
fetch_and_deobfuscate(reply, script) ==
    LET path == get_static_path(reply)
        segments == split_str(path.val, <<"/">>)
    IN  IF ~IsOk(path) THEN path
        ELSE IF Len(segments) < 4
        THEN Err("Deobfuscation", "Failed to extract version")
        ELSE IF script = "http" THEN Err("Http", "HTTP request failed")
        ELSE IF script # "ok"
        THEN Err("Deobfuscation", "Failed to extract " \o script)
        ELSE Ok(CacheFile("readable", segments[4]))

\* get_constants in an environment: the cache file, the replies to the
\* load requests of the version check and of the fetch, what comes of the
\* script, and whether the cache file can be written.  The result, the
\* cache file afterwards, and whether the script was requested (it is once
\* the fetch has a version).
get_constants(env) ==
    LET load_cache == IF env.cache.state = "missing" THEN Ok(None)
                      ELSE IF env.cache.state = "unreadable"
                      THEN Err("Io", "IO error")
                      ELSE Ok(Some(env.cache))
        from_cache(cached) ==
            [result |-> Ok([constants_of |-> cached.constants_of]),
             cache_after |-> env.cache, script_requested |-> FALSE]
        fresh == fetch_and_deobfuscate(env.fetch, env.script)
        refreshed ==
            IF ~IsOk(fresh)
            THEN [result |-> fresh, cache_after |-> env.cache,
                  script_requested |->
                      IsOk(fetch_current_version(env.fetch))]
            ELSE IF ~env.write_ok
            THEN [result |-> Err("Io", "IO error"), cache_after |-> env.cache,
                  script_requested |-> TRUE]
            ELSE [result |-> Ok([constants_of |-> fresh.val.constants_of]),
                  cache_after |-> fresh.val, script_requested |-> TRUE]
        current == fetch_current_version(env.check)
    IN  IF IsOk(load_cache) /\ IsSome(load_cache.val)
        THEN LET cached == Unwrap(load_cache.val) IN
             IF IsPanic(current)
             THEN [result |-> current, cache_after |-> env.cache,
                   script_requested |-> FALSE]
             ELSE IF IsErr(current) THEN from_cache(cached)
             ELSE IF cached.version = current.val THEN from_cache(cached)
             ELSE refreshed
        ELSE refreshed

\* the replies to a load request of get_static_path: no reply, a text
\* without '(', without ')', with the last ')' before the first '(', with
\* nothing between them, with a body that is not JSON or has no
\* static_path, and with a static path of three and of four or more parts
GetConstantsCall ==
    /\ call_fn = ""
    /\ LET reply(sent, open, close, json_ok, static_path) ==
               [sent |-> sent, open |-> open, close |-> close,
                json_ok |-> json_ok, static_path |-> static_path]
           replies ==
               {reply(FALSE, None, None, FALSE, None),
                reply(TRUE, None, Some(9), FALSE, None),
                reply(TRUE, Some(7), None, FALSE, None),
                reply(TRUE, Some(1), Some(0), FALSE, None),
                reply(TRUE, Some(7), Some(8), FALSE, None),
                reply(TRUE, Some(7), Some(40), FALSE, None),
                reply(TRUE, Some(7), Some(40), TRUE, None),
                reply(TRUE, Some(7), Some(40), TRUE, Some(<<"/", "a", "/", "b">>))}
               \cup {reply(TRUE, Some(7), Some(40), TRUE,
                           Some(<<"/", "a", "/", "b", "/">> \o v \o rest)) :
                        v \in {<<"1">>, <<"2">>},
                        rest \in {<<>>, <<"/", "j", "s">>}}
           caches == {CacheFile("missing", <<>>), CacheFile("unreadable", <<>>),
                      CacheFile("readable", <<"1">>),
                      CacheFile("readable", <<"0">>)}
       IN  \E env \in [cache : caches, check : replies, fetch : replies,
                       script : {"ok", "http", "encrypted table",
                                 "mapping constant"},
                       write_ok : BOOLEAN] :
             /\ call_fn' = "get_constants"
             /\ call_in' = env
             /\ call_out' = get_constants(env)
    /\ UNCHANGED <<session_vars, enc_vars, pow_vars, vp_vars, sig_vars,
                   pat_vars, map_vars, sessions>>

SpecConstants == InitEnc /\ [][GetConstantsCall]_vars

---------------------------------------------------------------------------
(* solvers/gobang.rs: GobangSolver::find_four_in_line *)

\* the stones of a board are 1..MaxStone, 0 is an empty cell
MaxStone == 2
\* the sides of the square boards
BoardSizes == 1..3

\* iterate_lines: the rows, the columns, the diagonals from the left edge
\* and from the top edge, the anti-diagonals from the left edge and from the
\* bottom edge, as sequences of (row, col) counted from 0
iterate_lines(n) ==
    LET rows == [row \in 1..n |-> [col \in 1..n |-> <<row - 1, col - 1>>]]
        cols == [col \in 1..n |-> [row \in 1..n |-> <<row - 1, col - 1>>]]
        main_diag_1 == [s \in 1..n |->
                          [i \in 1..(n - (s - 1)) |-> <<(s - 1) + (i - 1), i - 1>>]]
        main_diag_2 == [s \in 1..(n - 1) |->
                          [i \in 1..(n - s) |-> <<i - 1, s + (i - 1)>>]]
        anti_diag_1 == [s \in 1..n |->
                          [i \in 1..s |-> <<(s - 1) - (i - 1), i - 1>>]]
        anti_diag_2 == [s \in 1..(n - 1) |->
                          [i \in 1..(n - s) |-> <<n - 1 - (i - 1), s + (i - 1)>>]]
    IN  rows \o cols \o main_diag_1 \o main_diag_2 \o anti_diag_1 \o anti_diag_2

\* a faulty search, against which C27 is tested: the cells of the line are
\* not excluded
find_remove_candidate_any(board, target, exclude) ==
    LET n == Len(board)
        hits == {p \in (0..(n - 1)) \X (0..(n - 1)) :
                    board[p[1] + 1][p[2] + 1] = target}
    IN  IF hits = {} THEN None
        ELSE Some(CHOOSE p \in hits :
                    \A q \in hits : p[1] < q[1] \/ (p[1] = q[1] /\ p[2] <= q[2]))

\* find_remove_candidate: the first cell in row-major order that holds
\* target and is not a cell of exclude
find_remove_candidate(board, target, exclude) ==
    LET n == Len(board)
        hits == {p \in (0..(n - 1)) \X (0..(n - 1)) :
                    /\ \A k \in 1..Len(exclude) : exclude[k] # p
                    /\ board[p[1] + 1][p[2] + 1] = target}
    IN  IF hits = {} THEN None
        ELSE Some(CHOOSE p \in hits :
                    \A q \in hits : p[1] < q[1] \/ (p[1] = q[1] /\ p[2] <= q[2]))

\* find_four_in_line: the first line, in the order of iterate_lines, that
\* has n cells, n - 1 of them holding one stone and one holding 0, and for
\* which a stone can be removed elsewhere.  (Two values can both occur
\* n - 1 times only for n = 2 in a line without 0, which is skipped.)
find_four_in_line(board) ==
    LET n == Len(board)
        lines == iterate_lines(n)
        elements(line) == [k \in 1..Len(line) |->
                              board[line[k][1] + 1][line[k][2] + 1]]
        count_freq(es, num) == Cardinality({k \in 1..Len(es) : es[k] = num})
        found(line) ==
            LET es == elements(line)
                values == {es[k] : k \in 1..Len(es)}
                correct == {num \in values :
                               count_freq(es, num) = n - 1 /\ num # 0}
                zeros == {k \in 1..Len(es) : es[k] = 0}
            IN  IF Len(line) < n THEN None
                ELSE IF ~\E num \in values : count_freq(es, num) = n - 1
                THEN None
                ELSE IF 0 \in values /\ count_freq(es, 0) = n - 1 THEN None
                ELSE IF correct = {} \/ zeros = {} THEN None
                ELSE LET correct_num == CHOOSE num \in correct : TRUE
                         zero_idx == CHOOSE k \in zeros : \A j \in zeros : k <= j
                         remove_pos == find_remove_candidate(board, correct_num,
                                                             line)
                     IN  IF remove_pos = None THEN None
                         ELSE Some(<<Unwrap(remove_pos), line[zero_idx]>>)
        RECURSIVE scan(_)
        scan(i) == IF i > Len(lines) THEN None
                   ELSE IF IsSome(found(lines[i])) THEN found(lines[i])
                   ELSE scan(i + 1)
    IN  scan(1)

\* GobangSolver::new(board).find_four_in_line() on every square board of a
\* side in BoardSizes
FindFourCall ==
    /\ call_fn = ""
    /\ \E n \in BoardSizes :
         \E board \in [1..n -> [1..n -> 0..MaxStone]] :
           /\ call_fn' = "find_four_in_line"
           /\ call_in' = board
           /\ call_out' = find_four_in_line(board)
    /\ UNCHANGED <<session_vars, enc_vars, pow_vars, vp_vars, sig_vars,
                   pat_vars, map_vars, sessions>>

SpecGobang == InitEnc /\ [][FindFourCall]_vars

---------------------------------------------------------------------------
(* crypto/mod.rs: rand_uid and the AES key made of it *)

\* the key size of AES-128, in bytes
AES_KEY_BYTES == 16

\* a faulty generator, against which C28 is tested: `for _ in 0..3`
rand_uid_three_groups(draws) ==
    LET RECURSIVE hex(_)
        hex(v) == IF v < 16 THEN <<HexLowerDigits[v + 1]>>
                  ELSE Append(hex(v \div 16), HexLowerDigits[(v % 16) + 1])
        RECURSIVE pad(_)
        pad(s) == IF Len(s) >= 4 THEN s ELSE pad(<<"0">> \o s)
    IN  pad(hex(draws[1])) \o pad(hex(draws[2])) \o pad(hex(draws[3]))

\* rand_uid when gen_range(0x1000..=0xFFFF) returns draws[1..4]:
\* `format!("{:04x}", val)` is the lower-case hex of val without leading
\* zeros, padded with '0' on the left to at least 4 characters
rand_uid(draws) ==
    LET RECURSIVE hex(_)
        hex(v) == IF v < 16 THEN <<HexLowerDigits[v + 1]>>
                  ELSE Append(hex(v \div 16), HexLowerDigits[(v % 16) + 1])
        RECURSIVE pad(_)
        pad(s) == IF Len(s) >= 4 THEN s ELSE pad(<<"0">> \o s)
    IN  pad(hex(draws[1])) \o pad(hex(draws[2])) \o pad(hex(draws[3]))
        \o pad(hex(draws[4]))

\* `Aes128CbcEnc::new(key_bytes.into(), iv.into())` of encrypt_aes_cbc: the
\* conversion of the key slice into the 16-byte array of the cipher aborts
\* on any other length
Aes128CbcEnc_new(key) ==
    LET key_bytes == [i \in 1..Len(key) |-> HexCode(key[i])]
    IN  IF Len(key_bytes) = AES_KEY_BYTES THEN Ok(key_bytes)
        ELSE Panic("key length mismatch")

\* the hybrid arm of encrypt_w: rand_uid() on draws of the closed range
\* 0x1000..=0xFFFF (its ends and values between), then the cipher's key
RandUidCall ==
    /\ call_fn = ""
    /\ \E draws \in [1..4 -> {4096, 4097, 32767, 32768, 43981, 65535}] :
         /\ call_fn' = "rand_uid"
         /\ call_in' = draws
         /\ call_out' = [uid |-> rand_uid(draws),
                         key |-> Aes128CbcEnc_new(rand_uid(draws))]
    /\ UNCHANGED <<session_vars, enc_vars, pow_vars, vp_vars, sig_vars,
                   pat_vars, map_vars, sessions>>

SpecRandUid == InitEnc /\ [][RandUidCall]_vars

---------------------------------------------------------------------------
(* client.rs: parse_jsonp on the text of a response *)

\* longest response text given to parse_jsonp
MaxResponseLen == 5

\* parse_jsonp on the characters of the response.  "J" stands for a JSON
\* text of an envelope with status "success", "E" for one with another
\* status (serde_json::from_str accepts exactly a complete JSON text);
\* "é" is a character of two bytes, every other character has one.  The
\* slice `&response[json_start..json_end]` is taken at byte offsets: it
\* aborts when json_start > json_end and when json_end = len - 1 is not a
\* character boundary.
parse_jsonp_text(response, callback) ==
    LET prefix == callback \o <<"(">>
        n == Len(prefix)
        hits == {i \in 1..(Len(response) - n + 1) :
                    SubSeq(response, i, i + n - 1) = prefix}
        find == CHOOSE h \in hits : \A g \in hits : h <= g
        last == response[Len(response)]
        \* the last byte is cut off: of a JSON text that leaves a part
        json_str == SubSeq(response, find + n, Len(response) - 1)
                    \o (IF last \in {"J", "E"} THEN <<"part">> ELSE <<>>)
    IN  IF hits = {} THEN Err("InvalidResponse", "Invalid JSONP format")
        ELSE IF find + n > Len(response)
        THEN Panic("slice index starts past its end")
        ELSE IF last = "é" THEN Panic("byte index is not a char boundary")
        ELSE IF json_str = <<"J">> THEN Ok("data")
        ELSE IF json_str = <<"E">>
        THEN Err("InvalidResponse", "Geetest returned status: error")
        ELSE Err("Json", "JSON parsing error")

ParseJsonpCall ==
    /\ call_fn = ""
    /\ \E response \in SeqsUpTo({"g", "(", ")", "J", "E", "é"}, MaxResponseLen),
          callback \in {<<"g">>, <<"g", "g">>} :
         /\ call_fn' = "parse_jsonp"
         /\ call_in' = [response |-> response, callback |-> callback]
         /\ call_out' = parse_jsonp_text(response, callback)
    /\ UNCHANGED <<session_vars, enc_vars, pow_vars, vp_vars, sig_vars,
                   pat_vars, map_vars, sessions>>

SpecJsonp == InitEnc /\ [][ParseJsonpCall]_vars

---------------------------------------------------------------------------
(* Properties of the solve session *)

\* a verify reply that reached solve() as a VerifyResponse
ReplyParsed(reply) ==
    /\ reply.sent /\ reply.found /\ reply.slice_ok /\ reply.json_ok
    /\ reply.status = "success"
SeccodeReply(reply) == ReplyParsed(reply) /\ IsSome(reply.data.seccode)
FailedReply(reply) ==
    /\ ReplyParsed(reply)
    /\ reply.data.seccode = None
    /\ reply.data.result # Some("continue")

Count(seq, e) == Cardinality({i \in 1..Len(seq) : seq[i] = e})
FirstIndex(seq, e) ==
    CHOOSE i \in 1..Len(seq) : seq[i] = e /\ \A j \in 1..(i - 1) : seq[j] # e
MaxRetriesFailure ==
    [variant |-> "VerificationFailed", message |-> "Max retries (10) exceeded"]

\* C1: there is never an 11th verify call, and a session all of whose verify
\* responses were continue responses (no seccode, result "continue") has
\* ended only after exactly 10 verify calls, with the "max retries exceeded"
\* failure.
C1_TenContinuesThenMaxRetries ==
    /\ verify_calls <= 10
    /\ (pc = "done" /\ verify_calls >= 1 /\ continues = verify_calls)
          => /\ verify_calls = 10
             /\ IsErr(outcome)
             /\ outcome.val = MaxRetriesFailure

C1_Witness ==
    /\ pc = "done"
    /\ verify_calls = 10
    /\ continues = 10
    /\ IsErr(outcome)
    /\ outcome.val = MaxRetriesFailure

\* C2: once a verify response carries a seccode, whatever its result field
\* says, the session has ended in success with that seccode, every earlier
\* response was a continue response (k of them, k in 0..9, for k+1 verify
\* calls), and no verify call follows.
C2_SeccodeEndsInSuccess ==
    [][/\ (verify_calls' >= 1 /\ SeccodeReply(last_reply'))
            => /\ pc' = "done"
               /\ IsOk(outcome')
               /\ outcome'.val = Unwrap(last_reply'.data.seccode)
               /\ continues' \in 0..9
               /\ verify_calls' = continues' + 1
       /\ (verify_calls >= 1 /\ SeccodeReply(last_reply))
            => verify_calls' = verify_calls]_vars

C2_Witness ==
    /\ pc = "done"
    /\ verify_calls = 4
    /\ continues = 3
    /\ SeccodeReply(last_reply)
    /\ last_reply.data.result = Some("fail")
    /\ IsOk(outcome)
    /\ outcome.val = "seccode2"

\* C3: in every verify call the lot_number query parameter is the lot number
\* the submitted w was signed over: the one in the payload's lot_number
\* field, in the PoW message and given to LotParser.
C3_SigningUsesCurrentLot ==
    verify_calls >= 1 =>
        LET plain == last_call.w.plain[1] IN
        /\ plain.lot_number = last_call.lot_number
        /\ plain.pow_msg.lot_number = last_call.lot_number
        /\ plain.lot_dict.lot_number = last_call.lot_number

\* C4: the solver is invoked at most once, and exactly once, after the load
\* call and before the first verify call, in every run that got past the
\* load; only the w of the first verify call is signed with the solver
\* result, every w signed after a continue response is signed with none.
C4_SolverOnceFirstSigningOnly ==
    /\ solver_calls <= 1
    /\ Count(events, "solve") = solver_calls
    /\ (pc \in {"sign", "submit"} \/ sign_calls >= 1 \/ verify_calls >= 1)
          => /\ solver_calls = 1
             /\ FirstIndex(events, "load") < FirstIndex(events, "solve")
    /\ verify_calls >= 1
          => /\ FirstIndex(events, "solve") < FirstIndex(events, "verify")
             /\ IsSome(last_call.w.plain[1].solver) <=> verify_calls = 1
    /\ (pc = "submit" /\ verify_calls >= 1)
          => current_w.plain[1].solver = None

C4_Witness ==
    /\ pc = "done"
    /\ verify_calls = 4
    /\ continues = 3
    /\ solver_calls = 1
    /\ sign_calls = 4
    /\ last_call.w.plain[1].solver = None

\* C5: a continue response overwrites exactly those of payload,
\* process_token and lot_number that it contains, and the triple sent by the
\* next verify call is the previous call's triple with only the fields
\* present in the response replaced.
C5_ContinueUpdatesOnlyPresentFields ==
    [][/\ (verify_calls' = verify_calls + 1 /\ IsContinueResponse(last_reply')
             /\ pc' = "submit")
            => LET resp == last_reply'.data IN
               /\ payload' = IF IsSome(resp.payload)
                             THEN Unwrap(resp.payload) ELSE payload
               /\ process_token' = IF IsSome(resp.process_token)
                                   THEN Unwrap(resp.process_token)
                                   ELSE process_token
               /\ lot_number' = IF IsSome(resp.lot_number)
                                THEN Unwrap(resp.lot_number) ELSE lot_number
       /\ (verify_calls >= 1 /\ verify_calls' = verify_calls + 1)
            => LET resp == last_reply.data IN
               /\ last_call'.payload =
                    IF IsSome(resp.payload)
                    THEN Unwrap(resp.payload) ELSE last_call.payload
               /\ last_call'.process_token =
                    IF IsSome(resp.process_token)
                    THEN Unwrap(resp.process_token)
                    ELSE last_call.process_token
               /\ last_call'.lot_number =
                    IF IsSome(resp.lot_number)
                    THEN Unwrap(resp.lot_number)
                    ELSE last_call.lot_number]_vars

C5_Witness ==
    /\ verify_calls = 3
    /\ last_call.payload = "payload1"
    /\ last_call.process_token = LoadToken
    /\ last_call.lot_number = 1
    /\ IsContinueResponse(last_reply)
    /\ last_reply.data.payload = None
    /\ IsSome(last_reply.data.process_token)
    /\ pc = "submit"
    /\ payload = "payload1"
    /\ process_token = "token1"

\* C6: a verify response with no seccode and a result other than "continue"
\* ends the session at once in a verification failure whose message is the
\* server's result, or "Unknown verification error" when the result is
\* absent, and no verify call follows.
C6_FailedResponseIsTerminal ==
    [][/\ (verify_calls' >= 1 /\ FailedReply(last_reply'))
            => /\ pc' = "done"
               /\ IsErr(outcome')
               /\ outcome'.val.variant = "VerificationFailed"
               /\ outcome'.val.message =
                    IF IsSome(last_reply'.data.result)
                    THEN Unwrap(last_reply'.data.result)
                    ELSE "Unknown verification error"
       /\ (verify_calls >= 1 /\ FailedReply(last_reply))
            => verify_calls' = verify_calls]_vars

C6_Witness ==
    /\ pc = "done"
    /\ verify_calls = 3
    /\ FailedReply(last_reply)
    /\ last_reply.data.result = None
    /\ IsErr(outcome)
    /\ outcome.val.message = "Unknown verification error"

\* C7: the failure solve() returns for a server-reported failure is never
\* the value it returns for "max retries exceeded", whatever reason string
\* the server sent.
C7_MaxRetriesDistinctFromServerFailure ==
    (pc = "done" /\ verify_calls >= 1 /\ FailedReply(last_reply))
        => ~(IsErr(outcome) /\ outcome.val = MaxRetriesFailure)

\* C8: a verify call that fails in transport or whose response is not a
\* well-formed successful envelope makes solve() return an error at once
\* (no further verify call), and a further verify call is made only after a
\* continue response.
C8_TransportAndFormatErrorsReturned ==
    /\ (verify_calls >= 1 /\ ~ReplyParsed(last_reply))
          => pc = "done" /\ IsErr(outcome)
    /\ (verify_calls >= 1 /\ pc = "submit") => IsContinueResponse(last_reply)

\* C9: a session that ended in the load call, in the solver or in the first
\* signing returned that failure as an error and made no verify call.
C9_EarlyFailuresReturnedBeforeSubmission ==
    (pc = "done" /\ sign_calls <= 1 /\ events[Len(events)] # "verify")
        => IsErr(outcome) /\ verify_calls = 0

---------------------------------------------------------------------------
(* Properties of encrypt_w *)

\* the percent-encoding of a string, from its last character backwards
RECURSIVE PercentEncoding(_)
PercentEncoding(s) ==
    IF Len(s) = 0 THEN <<>>
    ELSE LET c == s[Len(s)]
             code == Code(c)
         IN  PercentEncoding(SubSeq(s, 1, Len(s) - 1))
             \o (IF c \in {"a", "7", "-"}
                 THEN <<c>>
                 ELSE <<"%", HexUpper[(code \div 16) + 1],
                        HexUpper[(code % 16) + 1]>>)

\* C10: encrypt_w always returns: for pt "" or "0" the percent-encoding of
\* the plaintext, drawing no key; for pt "1" the hybrid ciphertext under the
\* drawn key; for pt "2" and every other value an Encryption error and no
\* output string.
C10_EncryptDispatchTotal ==
    enc_out.result.tag # "Running" =>
        LET r == enc_out.result IN
        /\ r.tag \in {"Ok", "Err"}
        /\ enc_pt \in {"", "0"}
              => /\ IsOk(r)
                 /\ r.val = PercentEncoding(enc_in)
                 /\ enc_out.uids_drawn = 0
        /\ enc_pt = "1"
              => /\ IsOk(r)
                 /\ r.val = Hybrid(encrypt_aes_cbc(enc_in, enc_uid),
                                   encrypt_rsa(enc_uid))
        /\ enc_pt \notin {"", "0", "1"}
              => /\ IsErr(r)
                 /\ r.val.variant = "Encryption"

C10_Witness ==
    /\ enc_pt = "0"
    /\ enc_in = <<" ", "a">>
    /\ IsOk(enc_out.result)
    /\ enc_out.result.val = <<"%", "2", "0", "a">>
    /\ enc_out.uids_drawn = 0

HexDigitOf(ch, alg, at) ==
    /\ ch.hex_of.alg = alg
    /\ ch.hex_of.at = (at + 1) \div 2
    /\ ch.digit = 2 - (at % 2)

\* C11: for a plaintext of n bytes the hybrid mode returns 2*c + 256
\* characters, c = 16 * (n div 16 + 1) being the length of the AES ciphertext:
\* the first 2*c are the hex digits of the AES-CBC ciphertext of the
\* plaintext under the drawn key, in order, and the last 256 are the hex
\* digits of the RSA encryption of that key.
C11_HybridLength ==
    (enc_pt = "1" /\ enc_out.result.tag # "Running") =>
        LET n == Len(enc_in)
            c == 16 * ((n \div 16) + 1)
            w == enc_out.result.val
        IN  /\ IsOk(enc_out.result)
            /\ c % 16 = 0
            /\ Len(encrypt_aes_cbc_bytes(enc_in, enc_uid)) = c
            /\ Len(w) = 2 * c + 256
            /\ \A i \in 1..(2 * c) :
                  /\ HexDigitOf(w[i], "aes_cbc", i)
                  /\ w[i].hex_of.of = [aes_cbc |-> enc_in, key |-> enc_uid]
            /\ \A i \in 1..256 :
                  /\ HexDigitOf(w[2 * c + i], "rsa", i)
                  /\ w[2 * c + i].hex_of.of.rsa = enc_uid

C11_Witness ==
    /\ enc_pt = "1"
    /\ Len(enc_in) = 32
    /\ IsOk(enc_out.result)
    /\ Len(enc_out.result.val) = 352
    /\ enc_out.result.val[96].hex_of.alg = "aes_cbc"
    /\ enc_out.result.val[97].hex_of.alg = "rsa"

---------------------------------------------------------------------------
(* Properties of the proof of work *)

\* the number a hex digit stands for
HexValue(c) == (CHOOSE i \in 1..16 : HexLowerDigits[i] = c) - 1

\* C12: the signature of every returned PowResult passes the acceptance
\* check for the bits of the call: its first bits/4 hex digits are '0' and,
\* when bits mod 4 is 1, 2 or 3, the next digit stands for at most 7, 3 or 1.
C12_ReturnedSignatureAccepted ==
    pow_pc = "returned" =>
        LET sign == pow_out.pow_sign
            q == pow_args.bits \div 4
            r == pow_args.bits % 4
        IN  /\ q <= Len(sign)
            /\ \A i \in 1..q : sign[i] = "0"
            /\ r # 0 =>
                 /\ q + 1 <= Len(sign)
                 /\ HexValue(sign[q + 1])
                        <= (CASE r = 1 -> 7 [] r = 2 -> 3 [] r = 3 -> 1)

C12_Witness ==
    /\ pow_pc = "returned"
    /\ pow_args.bits = 7
    /\ pow_rejected = 2
    /\ pow_out.pow_sign = <<"0", "1">>

\* the number of leading zero bits of a digest of 4 bits per hex digit
RECURSIVE LeadingZeroBits(_)
LeadingZeroBits(digest) ==
    IF digest = <<>> THEN 0
    ELSE LET v == HexValue(Head(digest)) IN
         IF v = 0 THEN 4 + LeadingZeroBits(Tail(digest))
         ELSE IF v = 1 THEN 3
         ELSE IF v <= 3 THEN 2
         ELSE IF v <= 7 THEN 1
         ELSE 0

\* C13: for every lowercase hex digest and every bits from 0 to 4 times its
\* length, verify_pow accepts the digest if and only if the digest has at
\* least `bits` leading zero bits.
C13_VerifyPowIsLeadingZeroBits ==
    (vp_bits >= 0 /\ vp_bits <= 4 * Len(vp_hash))
        => (vp_out <=> LeadingZeroBits(vp_hash) >= vp_bits)

C13_Witness ==
    /\ vp_hash = <<"0", "3">>
    /\ vp_bits = 6
    /\ vp_out

\* C14: the prefix is version|bits|hash_fn|datetime|captcha_id|lot_number||
\* throughout the search, every candidate message is that prefix followed by
\* one nonce, and the returned pair is such a message, its nonce of 16
\* characters, with the digest of that very message.
C14_PowPairConsistent ==
    pow_pc \in {"loop", "returned"} =>
        LET a == pow_args
            prefix == a.version \o "|" \o ToString(a.bits) \o "|"
                        \o a.hash_func \o "|" \o a.datetime \o "|"
                        \o a.captcha_id \o "|" \o a.lot_number \o "||"
        IN  /\ pow_base = prefix
            /\ pow_hashed > 0 => \E n \in Uids : pow_msg = prefix \o n
            /\ pow_pc = "returned" =>
                 \E n \in Uids :
                    /\ Len(n) = 16
                    /\ pow_out.pow_msg = prefix \o n
                    /\ pow_out.pow_sign = pow_digest[n]

C14_Witness ==
    /\ pow_pc = "returned"
    /\ pow_rejected = 2
    /\ pow_out.pow_msg = "1|5|sha1|dt|cid|lot0||ffffffffffffffff"
    /\ pow_out.pow_sign = <<"0", "7">>
    /\ pow_digest["1000100010001000"] = <<"0", "8">>

\* C15: a session whose signing meets an unknown hash function name ends in
\* an error value: solve() never ends in the abort of generate_pow.
C15_UnknownHashIsErrorOutcome ==
    ~(IsPanic(outcome) /\ outcome.val = "Unsupported hash function: crc32")

\* C16: the search returns at the first accepted candidate (with bits = 0,
\* after hashing exactly one candidate) and, under fair nonce generation,
\* returns whenever some nonce has an accepted digest, however many
\* candidates were rejected before.
C16_SearchStopsAtFirstAccepted ==
    /\ [](pow_pc \in {"loop", "returned"} =>
            /\ pow_pc = "returned" => pow_hashed = pow_rejected + 1
            /\ (pow_pc = "loop" /\ pow_hashed > 0)
                  => ~PowAccepts(pow_hash, pow_args.bits)
            /\ pow_args.bits = 0 =>
                 /\ pow_rejected = 0
                 /\ pow_pc = "returned" => pow_hashed = 1)
    /\ (/\ pow_pc = "loop"
        /\ pow_args.hash_func \in {"md5", "sha1", "sha256"}
        /\ \E n \in Uids : PowAccepts(pow_digest[n], pow_args.bits))
          ~> pow_pc = "returned"

C16_Witness ==
    /\ pow_pc = "returned"
    /\ pow_args.bits = 8
    /\ pow_rejected = MaxRejected
    /\ pow_hashed = MaxRejected + 1

---------------------------------------------------------------------------
(* Properties of the payload *)

KeysOf(map) == {map[i][1] : i \in 1..Len(map)}
ValueAt(map, k) == map[CHOOSE i \in 1..Len(map) : map[i][1] = k][2]

\* C17: the payload has exactly one entry for every key of the base
\* fields, the abo constants, the top level of the lot structure and the
\* solver fields, and its value is the one of the last of these four
\* sources, in this order, that has the key.
C17_LaterSourceWins ==
    sig_payload # <<>> =>
        LET s1 == BasePayload("lot0", "pow_msg0", "pow_sign0")
            s2 == sig_in.abo
            s3 == sig_in.lot_dict
            s4 == SolverFields(sig_in.solver_result, sig_in.random)
        IN  /\ KeysOf(sig_payload)
                 = KeysOf(s1) \cup KeysOf(s2) \cup KeysOf(s3) \cup KeysOf(s4)
            /\ \A k \in KeysOf(sig_payload) :
                 /\ Cardinality({i \in 1..Len(sig_payload) :
                                    sig_payload[i][1] = k}) = 1
                 /\ ValueAt(sig_payload, k) =
                      IF k \in KeysOf(s4) THEN ValueAt(s4, k)
                      ELSE IF k \in KeysOf(s3) THEN ValueAt(s3, k)
                      ELSE IF k \in KeysOf(s2) THEN ValueAt(s2, k)
                      ELSE ValueAt(s1, k)

C17_Witness ==
    /\ sig_payload # <<>>
    /\ KeysOf(sig_in.abo) = {"lang", "k9", "passtime"}
    /\ KeysOf(sig_in.lot_dict) = {"k9"}
    /\ ValueAt(sig_payload, "lang") = "\"abo lang\""
    /\ ValueAt(sig_payload, "k9") = "{\"44\":{\"c5c270c\":\"4c44d\"}}"
    /\ ValueAt(sig_payload, "passtime") = "847"

\* C18: the keys the solver result writes depend only on its variant: Slide
\* writes passtime, setLeft and userresponse, Gobang writes userresponse
\* (the removal position, then the fill position), Icon writes passtime and
\* userresponse, Ai and no solver result write nothing; every other key
\* keeps the value of the merge before, and a passtime is in 600..1199.
C18_SolverFieldsByVariant ==
    sig_payload # <<>> =>
        LET sr == sig_in.solver_result
            variant == IF sr = None THEN "None" ELSE sr[1].variant
            expected ==
                CASE variant = "Slide" -> {"passtime", "setLeft", "userresponse"}
                  [] variant = "Gobang" -> {"userresponse"}
                  [] variant = "Icon" -> {"passtime", "userresponse"}
                  [] OTHER -> {}
            before == BuildPayload(BasePayload("lot0", "pow_msg0", "pow_sign0"),
                                   sig_in.abo, sig_in.lot_dict, <<>>)
        IN  /\ KeysOf(sig_payload) = KeysOf(before) \cup expected
            /\ \A k \in KeysOf(before) \ expected :
                 ValueAt(sig_payload, k) = ValueAt(before, k)
            /\ "passtime" \in expected =>
                 ValueAt(sig_payload, "passtime")
                     \in {ToString(n) : n \in 600..1199}
            /\ variant = "Slide" =>
                 ValueAt(sig_payload, "setLeft") = sr[1].left
            /\ variant = "Gobang" =>
                 LET remove == sig_in.found[1]
                     fill == sig_in.found[2]
                 IN  ValueAt(sig_payload, "userresponse") =
                       "[[" \o ToString(remove[1]) \o "," \o ToString(remove[2])
                         \o "],[" \o ToString(fill[1]) \o ","
                         \o ToString(fill[2]) \o "]]"
            /\ variant = "Icon" =>
                 ValueAt(sig_payload, "userresponse") = "[[10.5,20.0],[3.0,4.5]]"

C18_Witness ==
    /\ sig_payload # <<>>
    /\ sig_in.solver_result # None
    /\ sig_in.solver_result[1].variant = "Icon"
    /\ sig_in.random = 1199
    /\ "passtime" \in KeysOf(sig_in.abo)
    /\ "setLeft" \in KeysOf(sig_in.lot_dict)
    /\ ValueAt(sig_payload, "passtime") = "1199"
    /\ ValueAt(sig_payload, "setLeft") = "{\"44\":{\"c5c270c\":\"4c44d\"}}"

---------------------------------------------------------------------------
(* Properties of LotParser *)

\* C19: a pattern written as groups joined by "+.+", each group slices
\* n[start:end] joined by "+", compiles to one group per part, in order,
\* holding one <<start, end>> per slice, in order; the key pattern
\* (n[13:15]+n[3:5])+.+(n[1:3]+n[26:28])+.+(n[20:27]) compiles to 3 groups
\* of sizes 2, 2 and 1.
C19_PatternCompilesToGroups ==
    pat_in # <<>> =>
        /\ Len(pat_out) = Len(pat_shape.groups)
        /\ \A g \in 1..Len(pat_shape.groups) :
             /\ Len(pat_out[g]) = Len(pat_shape.groups[g])
             /\ \A k \in 1..Len(pat_shape.groups[g]) :
                  pat_out[g][k] = pat_shape.groups[g][k]
        /\ pat_in =
             <<"(", "n", "[", "1", "3", ":", "1", "5", "]", "+", "n", "[", "3",
               ":", "5", "]", ")", "+", ".", "+", "(", "n", "[", "1", ":", "3",
               "]", "+", "n", "[", "2", "6", ":", "2", "8", "]", ")", "+", ".",
               "+", "(", "n", "[", "2", "0", ":", "2", "7", "]", ")">>
             => /\ Len(pat_out) = 3
                /\ <<Len(pat_out[1]), Len(pat_out[2]), Len(pat_out[3])>>
                     = <<2, 2, 1>>

C19_Witness ==
    /\ pat_in =
        <<"(", "n", "[", "1", "3", ":", "1", "5", "]", "+", "n", "[", "3",
          ":", "5", "]", ")", "+", ".", "+", "(", "n", "[", "1", ":", "3",
          "]", "+", "n", "[", "2", "6", ":", "2", "8", "]", ")", "+", ".",
          "+", "(", "n", "[", "2", "0", ":", "2", "7", "]", ")">>
    /\ pat_out = << <<<<13, 15>>, <<3, 5>>>>, <<<<1, 3>>, <<26, 28>>>>,
                    <<<<20, 27>>>> >>

\* the places <<i, j, m>> at which a mapping has the form "<key>":Q<value>Q:
\* the key between the double quotes at i and j, the value between the
\* quotes Q at j + 2 and m, both non-empty and without their closing quote
FormMatches(s, q) ==
    {t \in (1..Len(s)) \X (1..Len(s)) \X (1..Len(s)) :
        /\ t[1] + 2 <= t[2] /\ t[2] + 4 <= t[3]
        /\ s[t[1]] = "\"" /\ s[t[2]] = "\""
        /\ \A x \in (t[1] + 1)..(t[2] - 1) : s[x] # "\""
        /\ s[t[2] + 1] = ":" /\ s[t[2] + 2] = q /\ s[t[3]] = q
        /\ \A x \in (t[2] + 3)..(t[3] - 1) : s[x] # q}

\* C20: LotParser::new returns an error exactly for the mappings that have
\* neither the form "<key>":"<value>" nor the form "<key>":'<value>'; a
\* mapping that has the first form compiles from it, one that has only the
\* second form compiles from that one.
C20_LotParserNewFailsIffNoForm ==
    map_out # <<>> =>
        LET dq == FormMatches(map_in, "\"")
            sq == FormMatches(map_in, "'")
            used == IF dq # {} THEN dq ELSE sq
            t == CHOOSE u \in used : \A v \in used : u[1] <= v[1]
        IN  /\ IsErr(map_out) <=> (dq = {} /\ sq = {})
            /\ map_out.tag \in {"Ok", "Err"}
            /\ used # {} =>
                 /\ IsOk(map_out)
                 /\ map_out.val.lot
                      = parse_pattern(SubSeq(map_in, t[1] + 1, t[2] - 1))
                 /\ map_out.val.lot_res
                      = parse_pattern(SubSeq(map_in, t[2] + 3, t[3] - 1))

C20_Witness ==
    /\ map_out # <<>>
    /\ FormMatches(map_in, "\"") # {}
    /\ \E t \in FormMatches(map_in, "'") :
          \A u \in FormMatches(map_in, "\"") : t[1] < u[1]
    /\ IsOk(map_out)
    /\ map_out.val.lot = << <<<<3, 5>>>> >>

---------------------------------------------------------------------------
(* Properties of build_string and get_dict *)

\* the characters of lot at the indices start..end (counted from 0) that
\* exist, in order
SliceChars(lot, slice) ==
    LET idx == {i \in 0..(Len(lot) - 1) : slice[1] <= i /\ i <= slice[2]}
    IN  [k \in 1..Cardinality(idx) |-> lot[slice[1] + k]]

\* the strings of the groups of a program on a lot number
GroupStrings(parsed, lot) ==
    LET RECURSIVE cat(_)
        cat(group) == IF group = <<>> THEN <<>>
                      ELSE SliceChars(lot, Head(group)) \o cat(Tail(group))
    IN  [g \in 1..Len(parsed) |-> cat(parsed[g])]

\* C21: for every compiled program and every lot number build_string
\* returns, without failing, the strings of the groups joined with ".",
\* each the concatenation over its pairs of the lot number's characters at
\* start..end inclusive, clipped to the characters that exist and empty for
\* a slice that starts past the end or has start > end + 1.
C21_BuildStringIsClippedSlices ==
    call_fn = "build_string" =>
        LET gs == GroupStrings(call_in.parsed, call_in.lot_number)
            RECURSIVE dotted(_)
            dotted(i) == IF i > Len(gs) THEN <<>>
                         ELSE gs[i] \o (IF i < Len(gs) THEN <<".">> ELSE <<>>)
                              \o dotted(i + 1)
        IN  /\ IsOk(call_out)
            /\ call_out.val = dotted(1)

\* v is a chain of objects of one entry each, keyed by keys in order, that
\* ends in leaf
RECURSIVE IsChain(_, _, _)
IsChain(v, keys, leaf) ==
    IF keys = <<>> THEN v = leaf
    ELSE /\ "obj" \in DOMAIN v
         /\ Len(v.obj) = 1
         /\ v.obj[1][1] = Head(keys)
         /\ IsChain(v.obj[1][2], Tail(keys), leaf)

\* the strings of seq joined with "."
RECURSIVE Dotted(_)
Dotted(seq) ==
    IF seq = <<>> THEN <<>>
    ELSE Head(seq) \o (IF Len(seq) > 1 THEN <<".">> ELSE <<>>)
         \o Dotted(Tail(seq))

\* C22: for a key-program of g >= 1 groups and a lot number without "."
\* get_dict returns an object nested exactly g levels deep, every level
\* holding one key, the i-th group's string, and the innermost value being
\* the joined string of the value-program.
C22_GetDictIsChain ==
    (/\ call_fn = "get_dict"
     /\ Len(call_in.parser.lot) >= 1
     /\ \A i \in 1..Len(call_in.lot_number) : call_in.lot_number[i] # ".")
    => /\ IsOk(call_out)
       /\ IsChain(call_out.val,
                  GroupStrings(call_in.parser.lot, call_in.lot_number),
                  JsonString(Dotted(GroupStrings(call_in.parser.lot_res,
                                                 call_in.lot_number))))

\* C23: a key-program of zero groups makes get_dict return the empty
\* object, which adds no key to the payload it is merged into.
C23_NoGroupsGiveEmptyObject ==
    (call_fn = "get_dict" /\ call_in.parser.lot = <<>>)
    => /\ call_out = Ok(JsonObject(<<>>))
       /\ InsertAll(<<>>, call_out.val.obj) = <<>>

---------------------------------------------------------------------------
(* Properties of the deserialization of VerifyResponse *)

\* C24: payload, process_token and lot_number of a verify response are
\* accepted as a JSON string and as a JSON integer, an integer becoming its
\* decimal string: the response deserializes to what it would with the
\* string sent in place of the integer, so a continue response carrying an
\* integer updates the state of the session to that string.
C24_IntegerFieldsNormalized ==
    call_fn = "deserialize_VerifyResponse" =>
        /\ IsOk(call_out)
        /\ \A f \in {"payload", "process_token", "lot_number"} :
             call_in[f].kind = "integer" =>
                /\ call_out.val[f] = Some(ToString(call_in[f].int))
                /\ call_out = deserialize_VerifyResponse(
                                 [call_in EXCEPT ![f] =
                                     JsonField("string",
                                               ToString(call_in[f].int), 0)])

---------------------------------------------------------------------------
(* Properties of two concurrent solve sessions *)

\* solve() run alone from the locals s on the responses `inputs`, as far as
\* they reach
RECURSIVE RunAlone(_, _, _)
RunAlone(s, geeked, inputs) ==
    IF s.pc = "done" THEN s
    ELSE IF ~AwaitsInput(s)
    THEN RunAlone(solve_step(s, geeked, NoReply), geeked, inputs)
    ELSE IF inputs = <<>> THEN s
    ELSE RunAlone(solve_step(s, geeked, Head(inputs)), geeked, Tail(inputs))

\* C25: in every interleaving of two solve() calls on the same Geeked value
\* each call's verify calls, retry state and outcome are those of the call
\* run alone on the responses it received: no step of the other call
\* changes them.
C25_SessionsIndependent ==
    sessions # <<>> =>
        LET geeked == [risk_type |-> risk_type, icon_feature |-> icon_feature,
                       constants |-> constants]
        IN  \A i \in {1, 2} :
              LET alone == RunAlone(SolveLocals, geeked, sessions[i].inputs)
                  here == RunAlone(sessions[i], geeked, <<>>)
              IN  /\ here.calls = alone.calls
                  /\ here.outcome = alone.outcome
                  /\ here = alone

\* one call got a new lot number and sent it while the other call, which
\* made as many verify calls, still sent the lot number of its load
C25_Witness ==
    /\ sessions # <<>>
    /\ sessions[1].pc = "done" /\ sessions[2].pc = "submit"
    /\ Len(sessions[1].calls) = 3 /\ Len(sessions[2].calls) = 2
    /\ sessions[1].calls[2].lot_number = 1
    /\ sessions[2].calls[2].lot_number = 0
    /\ sessions[2].calls[2].payload = "payload1"
    /\ sessions[1].outcome = Ok("seccode1")

---------------------------------------------------------------------------
(* Properties of get_constants *)

\* C26: get_constants returns the cached constants, requesting no script
\* and leaving the cache file as it is, exactly when a readable cache
\* exists and the version check reports the cached version or fails; in
\* every other case it fetches fresh constants, writes them to the cache
\* and returns them, or returns an error when the fetch or the write fails.
C26_CacheServedIffCurrentOrUnchecked ==
    call_fn = "get_constants" =>
        LET env == call_in
            check == fetch_current_version(env.check)
            fresh == fetch_and_deobfuscate(env.fetch, env.script)
            cond == /\ env.cache.state = "readable"
                    /\ ~IsOk(check) \/ check.val = env.cache.version
            served == /\ call_out.result =
                            Ok([constants_of |-> env.cache.constants_of])
                      /\ ~call_out.script_requested
                      /\ call_out.cache_after = env.cache
        IN  /\ cond <=> served
            /\ ~cond =>
                 IF IsOk(fresh) /\ env.write_ok
                 THEN /\ call_out.result =
                            Ok([constants_of |-> fresh.val.constants_of])
                      /\ call_out.cache_after = fresh.val
                 ELSE /\ IsErr(call_out.result)
                      /\ call_out.cache_after = env.cache

---------------------------------------------------------------------------
(* Properties of the gobang solver *)

\* the full-length lines of an n x n board, as sets of cells: the rows, the
\* columns and the two diagonals of n cells
FullLines(n) ==
    LET I == 0..(n - 1) IN
    {{<<r, c>> : c \in I} : r \in I}
    \cup {{<<r, c>> : r \in I} : c \in I}
    \cup {{<<i, i>> : i \in I}, {<<i, n - 1 - i>> : i \in I}}

\* fill is the empty cell of a full line whose other cells hold one stone,
\* and remove holds that stone outside the line
IsGobangMove(board, remove, fill) ==
    LET n == Len(board)
        at(p) == board[p[1] + 1][p[2] + 1]
        inside(p) == p[1] \in 0..(n - 1) /\ p[2] \in 0..(n - 1)
    IN  /\ inside(remove) /\ inside(fill)
        /\ at(fill) = 0
        /\ \E line \in FullLines(n) :
             /\ fill \in line
             /\ remove \notin line
             /\ at(remove) # 0
             /\ \A p \in line \ {fill} : at(p) = at(remove)

\* C27: when find_four_in_line returns Some([remove, fill]) on an n x n
\* board, fill holds 0 on a row, column or full diagonal whose other n - 1
\* cells hold one stone v, and remove holds v outside that line, both inside
\* the board; it returns None when the board has no such line and removal
\* candidate.
C27_GobangMoveIsSound ==
    call_fn = "find_four_in_line" =>
        LET n == Len(call_in)
            cells == (0..(n - 1)) \X (0..(n - 1))
        IN  /\ IsSome(call_out) =>
                 IsGobangMove(call_in, Unwrap(call_out)[1], Unwrap(call_out)[2])
            /\ (~\E remove \in cells, fill \in cells :
                    IsGobangMove(call_in, remove, fill))
                 => call_out = None

\* a move found on the anti-diagonal of a 3 x 3 board
C27_Witness ==
    /\ call_fn = "find_four_in_line"
    /\ Len(call_in) = 3
    /\ IsSome(call_out)
    /\ Unwrap(call_out)[2] = <<1, 1>>
    /\ call_in[1][1] # call_in[3][1]
    /\ call_in[1][2] # call_in[3][2]
    /\ call_in[2][1] # call_in[2][3]

---------------------------------------------------------------------------
(* Properties of rand_uid *)

\* C28: for every outcome of the random source rand_uid returns 16
\* hexadecimal characters, four groups that are each the 4-digit hex of the
\* value drawn from 0x1000..=0xFFFF, so the key encrypt_w hands to AES-128
\* has exactly 16 bytes and the cipher's constructor does not abort.
C28_RandUidIsSixteenHexChars ==
    call_fn = "rand_uid" =>
        LET uid == call_out.uid
            group(k) == SubSeq(uid, 4 * k - 3, 4 * k)
            value(g) == HexValue(g[1]) * 4096 + HexValue(g[2]) * 256
                        + HexValue(g[3]) * 16 + HexValue(g[4])
        IN  /\ Len(uid) = 16
            /\ \A i \in 1..Len(uid) :
                 \E d \in 1..16 : HexLowerDigits[d] = uid[i]
            /\ \A k \in 1..4 :
                 /\ value(group(k)) = call_in[k]
                 /\ value(group(k)) >= 4096 /\ value(group(k)) <= 65535
            /\ IsOk(call_out.key)
            /\ Len(call_out.key.val) = AES_KEY_BYTES

\* the four draws differ and include both ends of the range
C28_Witness ==
    /\ call_fn = "rand_uid"
    /\ call_in = <<4096, 65535, 43981, 32767>>
    /\ call_out.uid = <<"1", "0", "0", "0", "f", "f", "f", "f",
                        "a", "b", "c", "d", "7", "f", "f", "f">>
    /\ IsOk(call_out.key)

---------------------------------------------------------------------------
(* Properties of parse_jsonp *)

\* C29: parse_jsonp returns the unwrapped data or an error value for every
\* response and callback name, and never aborts; a response without
\* `callback(`, one that ends right after `callback(` and one whose last
\* character is not ")" each give an error value.
C29_ParseJsonpTotal ==
    call_fn = "parse_jsonp" =>
        LET response == call_in.response
            prefix == call_in.callback \o <<"(">>
            n == Len(prefix)
            occurs == \E i \in 1..(Len(response) - n + 1) :
                         SubSeq(response, i, i + n - 1) = prefix
            ends_with_prefix ==
                /\ Len(response) >= n
                /\ SubSeq(response, Len(response) - n + 1, Len(response)) = prefix
        IN  /\ IsOk(call_out) \/ IsErr(call_out)
            /\ ~occurs => IsErr(call_out)
            /\ ends_with_prefix => IsErr(call_out)
            /\ (response = <<>> \/ response[Len(response)] # ")")
                 => IsErr(call_out)

---------------------------------------------------------------------------
(* Properties of the order of signings and verify calls *)

\* C30: in a run that reaches submission signings and verify calls
\* alternate, starting with a signing; the signings are one more than the
\* continue responses received; a verify call sends the w of the signing
\* done after the previous response; the continue response that exhausts
\* the retry bound is followed by one more signing, whose w is not sent
\* (MAX_RETRIES + 1 signings for MAX_RETRIES verify calls).
C30_SigningsAlternateWithVerifyCalls ==
    LET ev == SelectSeq(events, LAMBDA e : e \in {"sign", "verify"})
        signs == Count(events, "sign")
        verifies == Count(events, "verify")
    IN  /\ signs = sign_calls /\ verifies = verify_calls
        /\ \A k \in 1..Len(ev) : ev[k] = (IF k % 2 = 1 THEN "sign" ELSE "verify")
        /\ (pc = "submit" \/ verify_calls >= 1) =>
              /\ sign_calls = 1 + continues
              /\ verify_calls <= MAX_RETRIES
              /\ verify_calls \in {continues, continues + 1}
        /\ pc = "submit" =>
              /\ ev[Len(ev)] = "sign"
              /\ IsSome(current_w.plain[1].solver) <=> sign_calls = 1
        /\ verify_calls >= 1 =>
              IsSome(last_call.w.plain[1].solver) <=> verify_calls = 1
        /\ continues = MAX_RETRIES =>
              /\ sign_calls = MAX_RETRIES + 1
              /\ verify_calls = MAX_RETRIES
              /\ ev[Len(ev)] = "sign"

\* the run that ends in the retry-bound failure: the last continue response
\* was followed by a signing and no verify call
C30_Witness ==
    /\ pc = "done"
    /\ continues = MAX_RETRIES
    /\ sign_calls = MAX_RETRIES + 1
    /\ verify_calls = MAX_RETRIES
    /\ outcome = Err("VerificationFailed", MaxRetriesMessage)
    /\ events[Len(events)] = "sign"

=============================================================================
